---- MODULE Spec2Model ----
(***************************************************************************)
(* A model of the analytics file proxy worker: the Range parser, the key   *)
(* and ownership validators, the cache-key builder, the Clerk based        *)
(* authentication and the /file/ request handler with the edge cache and   *)
(* the R2 bucket as collaborators.                                         *)
(*                                                                         *)
(* Strings of the program are sequences of one-character strings, so that  *)
(* prefix tests, substring tests, regular-expression searches and          *)
(* percent-coding are computed the way the code computes them.  An         *)
(* optional value (null / undefined in the code) is the empty sequence     *)
(* None, a present value x is the one-element sequence Some(x).            *)
(***************************************************************************)
EXTENDS Integers, Sequences, FiniteSets, TLC

VARIABLES
    reqs,     \* slot -> the request being handled there and the handler's locals
    cache,    \* caches.default: a set of entries [key, resp, by]
    fin,      \* pure-function harness: the arguments
    fout      \* pure-function harness: the results (None until applied)

vars == <<reqs, cache, fin, fout>>

None == <<>>
Some(x) == <<x>>
IsSome(o) == o # <<>>
Get(o) == o[1]

(***************************************************************************)
(* String helpers (String.prototype.startsWith / includes / trim).         *)
(***************************************************************************)
StartsWithAt(s, p, i) ==
    /\ i + Len(p) - 1 <= Len(s)
    /\ SubSeq(s, i, i + Len(p) - 1) = p

StartsWith(s, p) == StartsWithAt(s, p, 1)

Includes(s, p) == \E i \in 1..(Len(s) + 1) : StartsWithAt(s, p, i)

SetMin(S) == CHOOSE x \in S : \A y \in S : x <= y

RECURSIVE TrimLeft(_)
TrimLeft(s) == IF s # <<>> /\ Head(s) = " " THEN TrimLeft(Tail(s)) ELSE s

RECURSIVE TrimRight(_)
TrimRight(s) ==
    IF s # <<>> /\ s[Len(s)] = " " THEN TrimRight(SubSeq(s, 1, Len(s) - 1)) ELSE s

Trim(s) == TrimRight(TrimLeft(s))

Digits == <<"0", "1", "2", "3", "4", "5", "6", "7", "8", "9">>
IsDigit(c) == \E d \in 1..10 : Digits[d] = c
DigitVal(c) == (CHOOSE d \in 1..10 : Digits[d] = c) - 1

\* (\d*) at position i of s: the longest run of digits from there on.
DigitRun(s, i) ==
    LET stops == {j \in i..Len(s) : ~IsDigit(s[j])}
    IN  SubSeq(s, i, IF stops = {} THEN Len(s) ELSE SetMin(stops) - 1)

\* ([^/]*) at position i of s: the longest run of characters other than "/".
RECURSIVE SegmentRun(_, _)
SegmentRun(s, i) ==
    IF i <= Len(s) /\ s[i] # "/" THEN <<s[i]>> \o SegmentRun(s, i + 1) ELSE <<>>

\* JavaScript Numbers.  A finite value of the model is the integer itself;
\* Infinity, -Infinity and NaN are three values apart from every finite one.
Infinity == 2147483647
NegInfinity == -2147483647
NaN == -2147483646

IsFiniteNumber(x) == x \notin {Infinity, NegInfinity, NaN}

\* a - b and a + b of two Numbers.
NumSub(a, b) ==
    IF a = NaN \/ b = NaN THEN NaN
    ELSE IF a = Infinity THEN (IF b = Infinity THEN NaN ELSE Infinity)
    ELSE IF a = NegInfinity THEN (IF b = NegInfinity THEN NaN ELSE NegInfinity)
    ELSE IF b = Infinity THEN NegInfinity
    ELSE IF b = NegInfinity THEN Infinity
    ELSE a - b

NumAdd(a, b) ==
    IF a = NaN \/ b = NaN THEN NaN
    ELSE IF a = Infinity THEN (IF b = NegInfinity THEN NaN ELSE Infinity)
    ELSE IF a = NegInfinity THEN (IF b = Infinity THEN NaN ELSE NegInfinity)
    ELSE IF b \in {Infinity, NegInfinity} THEN b
    ELSE a + b

\* a < b, a <= b, a > b, a >= b of two Numbers: false when either is NaN.
NumLt(a, b) == a # NaN /\ b # NaN /\ a < b
NumLe(a, b) == a # NaN /\ b # NaN /\ a <= b
NumGt(a, b) == a # NaN /\ b # NaN /\ a > b
NumGe(a, b) == a # NaN /\ b # NaN /\ a >= b

\* `${x}` of a Number.
NumToString(x) ==
    IF x = Infinity THEN "Infinity"
    ELSE IF x = NegInfinity THEN "-Infinity"
    ELSE IF x = NaN THEN "NaN"
    ELSE ToString(x)

\* A run of digits without its leading zeros.
StripZeros(ds) ==
    LET first == {j \in 1..Len(ds) : ds[j] # "0"}
    IN  IF first = {} THEN <<>> ELSE SubSeq(ds, SetMin(first), Len(ds))

\* The value of a run of decimal digits.
RECURSIVE DecimalValue(_)
DecimalValue(ds) ==
    IF ds = <<>> THEN 0
    ELSE DecimalValue(SubSeq(ds, 1, Len(ds) - 1)) * 10 + DigitVal(ds[Len(ds)])

\* Number.MAX_VALUE has 309 digits: a decimal integer of more digits is
\* above every finite Number.
MaxFiniteDigits == 309

\* parseInt(text, 10) of a non-empty run of decimal digits: Infinity when
\* the integer is above every finite Number.
parseInt(ds) ==
    IF Len(StripZeros(ds)) > MaxFiniteDigits THEN Infinity
    ELSE DecimalValue(StripZeros(ds))

\* The decimal text of a natural number (the text a client writes in a header).
RECURSIVE ToDigits(_)
ToDigits(n) ==
    IF n < 10 THEN <<Digits[n + 1]>> ELSE ToDigits(n \div 10) \o <<Digits[(n % 10) + 1]>>

(***************************************************************************)
(* config.ts                                                               *)
(***************************************************************************)
MAX_RANGE_SIZE_BYTES == 50 * 1024 * 1024
MAX_SUFFIX_SIZE_BYTES == 10 * 1024 * 1024
CACHE_MAX_AGE_SECONDS == 5

(***************************************************************************)
(* range.ts: parseRangeHeader                                              *)
(***************************************************************************)
BYTES_EQ == <<"b", "y", "t", "e", "s", "=">>

\* An R2Range: each of offset, length, suffix is present or not.
R2Range(offset, length, suffix) == [offset |-> offset, length |-> length, suffix |-> suffix]

ParsedRange(range, error) == [range |-> range, error |-> error]

\* rangeHeader.match(/bytes=(\d*)-(\d*)/): the leftmost place where the
\* pattern matches, with both groups greedy; None when there is none.
RangeMatch(h) ==
    LET d1(i) == DigitRun(h, i + 6)
        hyphenAt(i) == i + 6 + Len(d1(i))
        ok(i) == /\ StartsWithAt(h, BYTES_EQ, i)
                 /\ hyphenAt(i) <= Len(h)
                 /\ h[hyphenAt(i)] = "-"
        places == {i \in 1..Len(h) : ok(i)}
    IN  IF places = {} THEN None
        ELSE LET i == SetMin(places)
             IN  Some([g1 |-> d1(i), g2 |-> DigitRun(h, hyphenAt(i) + 1)])

rangeLength_OffByOne(start, end) == NumSub(end, start)

\* const length = end - start + 1
rangeLength(start, end) == NumAdd(NumSub(end, start), 1)

lengthNotPositive_Strict(length) == NumLt(length, 0)

\* if (length <= 0): the end is before the start.
lengthNotPositive(length) == NumLe(length, 0)

lengthTooLarge_Lenient(length) == NumGt(length, MAX_RANGE_SIZE_BYTES + 1)

\* if (length > MAX_RANGE_SIZE_BYTES)
lengthTooLarge(length) == NumGt(length, MAX_RANGE_SIZE_BYTES)

openEndedRange_Capped(start) == R2Range(Some(start), Some(MAX_RANGE_SIZE_BYTES), None)

\* { offset: start }: from start to the end of the object.
openEndedRange(start) == R2Range(Some(start), None, None)

suffixTooLarge_Inclusive(end) == NumGe(end, MAX_SUFFIX_SIZE_BYTES)

\* if (end > MAX_SUFFIX_SIZE_BYTES)
suffixTooLarge(end) == NumGt(end, MAX_SUFFIX_SIZE_BYTES)

parseRangeHeader(rangeHeader) ==
    IF rangeHeader = None \/ Get(rangeHeader) = <<>>
    THEN ParsedRange(None, None)
    ELSE LET match == RangeMatch(Get(rangeHeader)) IN
         IF match = None THEN ParsedRange(None, None)
         ELSE LET g == Get(match)
                  start == IF g.g1 # <<>> THEN Some(parseInt(g.g1)) ELSE None
                  end == IF g.g2 # <<>> THEN Some(parseInt(g.g2)) ELSE None
              IN
              IF IsSome(start) /\ NumLt(Get(start), 0)
              THEN ParsedRange(None, Some("Invalid range: negative offset"))
              ELSE IF IsSome(start) /\ IsSome(end)
              THEN LET length == rangeLength(Get(start), Get(end)) IN
                   IF lengthNotPositive(length)
                   THEN ParsedRange(None, Some("Invalid range: end before start"))
                   ELSE IF lengthTooLarge(length)
                   THEN ParsedRange(None,
                            Some("Range too large: " \o NumToString(length) \o " bytes exceeds "
                                 \o ToString(MAX_RANGE_SIZE_BYTES) \o " byte limit"))
                   ELSE ParsedRange(Some(R2Range(start, Some(length), None)), None)
              ELSE IF IsSome(start)
              THEN ParsedRange(Some(openEndedRange(Get(start))), None)
              ELSE IF IsSome(end)
              THEN IF suffixTooLarge(Get(end))
                   THEN ParsedRange(None,
                            Some("Suffix range too large: " \o NumToString(Get(end)) \o " bytes exceeds "
                                 \o ToString(MAX_SUFFIX_SIZE_BYTES) \o " byte limit"))
                   ELSE ParsedRange(Some(R2Range(None, None, end)), None)
              ELSE ParsedRange(None, None)

(***************************************************************************)
(* security.ts                                                             *)
(***************************************************************************)
USER_ID_EQ == <<"u", "s", "e", "r", "_", "i", "d", "=">>
ANALYTICS_SLASH == <<"a", "n", "a", "l", "y", "t", "i", "c", "s", "/">>
NUL == "NUL"

\* key.match(/user_id=([^/]+)/): group 1 of the leftmost match, or None.
extractUserIdFromKey(key) ==
    LET ok(i) == /\ StartsWithAt(key, USER_ID_EQ, i)
                 /\ i + 8 <= Len(key)
                 /\ key[i + 8] # "/"
        places == {i \in 1..Len(key) : ok(i)}
    IN  IF places = {} THEN None
        ELSE Some(SegmentRun(key, SetMin(places) + 8))

validateFileKey_NoTraversalCheck(fileKey) ==
    IF fileKey = <<>> \/ Trim(fileKey) = <<>> THEN Some("Empty file key")
    ELSE IF StartsWith(fileKey, <<"/">>)
    THEN Some("Path traversal detected: absolute paths not allowed")
    ELSE IF Includes(fileKey, <<NUL>>) THEN Some("Invalid characters in file key")
    ELSE IF ~StartsWith(fileKey, ANALYTICS_SLASH) THEN Some("Invalid file path prefix")
    ELSE IF ~Includes(fileKey, USER_ID_EQ) THEN Some("Missing user_id in file path")
    ELSE None

\* The error message, or None when the key is valid.
validateFileKey(fileKey) ==
    IF fileKey = <<>> \/ Trim(fileKey) = <<>> THEN Some("Empty file key")
    ELSE IF Includes(fileKey, <<".", ".">>)
    THEN Some("Path traversal detected: '..' not allowed")
    ELSE IF StartsWith(fileKey, <<"/">>)
    THEN Some("Path traversal detected: absolute paths not allowed")
    ELSE IF Includes(fileKey, <<NUL>>) THEN Some("Invalid characters in file key")
    ELSE IF ~StartsWith(fileKey, ANALYTICS_SLASH) THEN Some("Invalid file path prefix")
    ELSE IF ~Includes(fileKey, USER_ID_EQ) THEN Some("Missing user_id in file path")
    ELSE None

validateFileAccess_AllowAll(fileKey, userId) == None

\* The error, or None when the user is authorized.
validateFileAccess(fileKey, userId) ==
    LET fileUserId == extractUserIdFromKey(fileKey) IN
    IF fileUserId = None \/ Get(fileUserId) = <<>>
    THEN Some("Could not extract user_id from file key")
    ELSE IF Get(fileUserId) # userId
    THEN Some("User attempted to access file owned by another user")
    ELSE None

(***************************************************************************)
(* cache.ts: buildCacheKey.  A URL is the pathname and the list of query   *)
(* parameters that `new URL(requestUrl)` parses; the scheme and host are   *)
(* the worker's own and the same in every request.                         *)
(***************************************************************************)
UID_PARAM == <<"_", "u", "i", "d">>

Param(name, value) == [name |-> name, value |-> value]

RECURSIVE DropNamed(_, _)
DropNamed(params, name) ==
    IF params = <<>> THEN <<>>
    ELSE IF Head(params).name = name THEN DropNamed(Tail(params), name)
    ELSE <<Head(params)>> \o DropNamed(Tail(params), name)

\* URLSearchParams.set: the first parameter of that name takes the value and
\* the others of that name are removed; with none, the pair is appended.
RECURSIVE SearchParamsSet(_, _, _)
SearchParamsSet(params, name, value) ==
    IF params = <<>> THEN <<Param(name, value)>>
    ELSE IF Head(params).name = name
    THEN <<Param(name, value)>> \o DropNamed(Tail(params), name)
    ELSE <<Head(params)>> \o SearchParamsSet(Tail(params), name, value)

\* application/x-www-form-urlencoded serialisation of one character.
FormEncodeChar(c) ==
    CASE c = " " -> <<"+">>
      [] c = "+" -> <<"%", "2", "B">>
      [] c = "&" -> <<"%", "2", "6">>
      [] c = "=" -> <<"%", "3", "D">>
      [] c = "/" -> <<"%", "2", "F">>
      [] c = "%" -> <<"%", "2", "5">>
      [] OTHER -> <<c>>

RECURSIVE FormEncode(_)
FormEncode(s) == IF s = <<>> THEN <<>> ELSE FormEncodeChar(Head(s)) \o FormEncode(Tail(s))

RECURSIVE SerializeParams(_)
SerializeParams(params) ==
    IF params = <<>> THEN <<>>
    ELSE FormEncode(Head(params).name) \o <<"=">> \o FormEncode(Head(params).value)
         \o (IF Tail(params) = <<>> THEN <<>> ELSE <<"&">> \o SerializeParams(Tail(params)))

\* URL.prototype.toString, without the constant scheme and host.
UrlToString(url) ==
    url.path \o (IF url.query = <<>> THEN <<>> ELSE <<"?">> \o SerializeParams(url.query))

Url(path, query) == [path |-> path, query |-> query]

\* The cache key Request: its URL text and its Range header (GET always).
CacheKey(url, range) == [url |-> url, range |-> range]

buildCacheKey_NoUid(requestUrl, userId, range) ==
    CacheKey(UrlToString(requestUrl),
             IF IsSome(range) /\ Get(range) # <<>> THEN range ELSE None)

buildCacheKey_NoRange(requestUrl, userId, range) ==
    CacheKey(UrlToString(Url(requestUrl.path,
                             SearchParamsSet(requestUrl.query, UID_PARAM, userId))),
             None)

\* range is the Range header text or None; `if (range)` skips an empty text too.
buildCacheKey(requestUrl, userId, range) ==
    CacheKey(UrlToString(Url(requestUrl.path,
                             SearchParamsSet(requestUrl.query, UID_PARAM, userId))),
             IF IsSome(range) /\ Get(range) # <<>> THEN range ELSE None)

(***************************************************************************)
(* Inputs of the pure functions.                                           *)
(***************************************************************************)
U1 == <<"u", "1">>
U2 == <<"u", "2">>

FILE_SLASH == <<"/", "f", "i", "l", "e", "/">>

\* analytics/user_id=<uid>/<name>
OwnedKey(uid, name) == ANALYTICS_SLASH \o USER_ID_EQ \o uid \o <<"/">> \o name

RangeSpan == 2

Near(c) == {n \in (c - RangeSpan)..(c + RangeSpan) : n >= 0}

RangeNumbers ==
    Near(0) \cup {99, 100, 199} \cup Near(MAX_SUFFIX_SIZE_BYTES) \cup Near(MAX_RANGE_SIZE_BYTES)

\* The text bytes=<a>-<b>; a or b may be absent.
BytesHeader(a, b) ==
    BYTES_EQ \o (IF IsSome(a) THEN ToDigits(Get(a)) ELSE <<>>) \o <<"-">>
             \o (IF IsSome(b) THEN ToDigits(Get(b)) ELSE <<>>)

\* bytes=<a>-<b> headers as a client writes them: the numbers, with an
\* optional leading zero on each, and nothing before or after.
HeaderTexts ==
    { [a |-> a, b |-> b, exact |-> TRUE,
       header |-> Some(BYTES_EQ
                       \o (IF IsSome(a) THEN z \o ToDigits(Get(a)) ELSE <<>>) \o <<"-">>
                       \o (IF IsSome(b) THEN z \o ToDigits(Get(b)) ELSE <<>>))] :
        a \in {None} \cup {Some(n) : n \in RangeNumbers},
        b \in {None} \cup {Some(n) : n \in RangeNumbers},
        z \in {<<>>, <<"0">>} }

\* No header, an empty one, and texts that are not exactly bytes=<a>-<b>.
JunkTexts ==
    { [a |-> None, b |-> None, exact |-> FALSE, header |-> h] :
        h \in { None, Some(<<>>),
                Some(<<"i", "t", "e", "m", "s", "=", "0", "-", "9">>),
                Some(<<"b", "y", "t", "e", "s", "=", "a", "-", "b">>),
                Some(<<"b", "y", "t", "e", "s", " ", "0", "-", "9">>),
                Some(<<"b", "y", "t", "e", "s", "=", "5">>),
                Some(BytesHeader(Some(0), Some(99)) \o <<",">> \o <<"2", "0", "0", "-", "2", "9", "9">>),
                Some(BytesHeader(Some(0), Some(9)) \o <<"x">>),
                Some(<<"x">> \o BytesHeader(Some(0), Some(9))),
                Some(<<"b", "y", "t", "e", "s", "=", "-", "-", "5">>) } }

RangeInputs == HeaderTexts \cup JunkTexts

\* A run of n digits 9.
Nines(n) == [i \in 1..n |-> "9"]

\* The integers, as text, that a client can write in bytes=<a>-<b>: short
\* ones, and ones of more digits than any finite Number has.
WideDigits ==
    { <<>>, <<"0">>, <<"5">>, ToDigits(MAX_RANGE_SIZE_BYTES),
      Nines(MaxFiniteDigits + 1), <<"1">> \o Nines(MaxFiniteDigits + 1) }

\* bytes=<a>-<b> headers whose numbers are given as text only.
WideTexts ==
    { [a |-> None, b |-> None, exact |-> FALSE,
       header |-> Some(BYTES_EQ \o da \o <<"-">> \o db)] :
        da \in WideDigits, db \in WideDigits }

WideRangeInputs == RangeInputs \cup WideTexts

KeyUrls ==
    { Url(FILE_SLASH \o OwnedKey(U1, <<"f">>), q) :
        q \in { <<>>,
                <<Param(UID_PARAM, U1)>>,
                <<Param(UID_PARAM, U2)>>,
                <<Param(<<"a">>, <<"b">>)>>,
                <<Param(UID_PARAM, U2), Param(<<"a">>, <<"b">>), Param(UID_PARAM, U1)>> } }

KeyUsers == {U1, U2, <<"u", " ", "1">>, <<"u", "+", "1">>, <<"u", "1", "&", "x", "=", "1">>}

KeyRanges ==
    { None, Some(<<>>),
      Some(BytesHeader(Some(0), Some(99))),
      Some(BytesHeader(Some(100), Some(199))),
      Some(BytesHeader(Some(0), None)) }

AccessKeys ==
    { OwnedKey(U1, <<"f">>),
      OwnedKey(U2, <<"f">>),
      ANALYTICS_SLASH \o <<"a", "r", "c", "h", "i", "v", "e", "/">> \o USER_ID_EQ \o U1 \o <<"/", "f">>,
      ANALYTICS_SLASH \o USER_ID_EQ \o U1,
      ANALYTICS_SLASH \o USER_ID_EQ \o <<"/", "f">>,
      ANALYTICS_SLASH \o USER_ID_EQ,
      ANALYTICS_SLASH \o <<"f">>,
      ANALYTICS_SLASH \o <<"x">> \o USER_ID_EQ \o U1 \o <<"/", "f">>,
      ANALYTICS_SLASH \o <<"x">> \o USER_ID_EQ \o U2 \o <<"/">> \o USER_ID_EQ \o U1 \o <<"/", "f">>,
      ANALYTICS_SLASH \o USER_ID_EQ \o U1 \o <<"/">> \o USER_ID_EQ \o U2 \o <<"/", "f">>,
      ANALYTICS_SLASH \o USER_ID_EQ \o <<"/">> \o USER_ID_EQ \o U2 \o <<"/", "f">>,
      ANALYTICS_SLASH \o <<"f", "?">> \o USER_ID_EQ \o U1,
      ANALYTICS_SLASH \o USER_ID_EQ \o U1 \o <<"x", "/", "f">>,
      ANALYTICS_SLASH \o <<"u", "s", "e", "r", "_", "i", "d", "/">> \o U1 }

AccessUsers == {U1, U2, <<"u">>, <<"u", "1", "x">>}

(***************************************************************************)
(* Specifications of the pure functions: Init draws the arguments, the     *)
(* action applies the function.  The handler's state stays empty.          *)
(***************************************************************************)
HandlerOff == reqs = <<>> /\ cache = {}

ApplyParseRangeHeader ==
    /\ fout = None /\ fin \in RangeInputs
    /\ fout' = Some(parseRangeHeader(fin.header))
    /\ UNCHANGED <<reqs, cache, fin>>

InitRange == HandlerOff /\ fin \in RangeInputs /\ fout = None
SpecRange == InitRange /\ [][ApplyParseRangeHeader]_vars

\* parseRangeHeader on the inputs of SpecRange and on the headers with
\* long runs of digits.
ApplyParseRangeHeaderWide ==
    /\ fout = None
    /\ fout' = Some(parseRangeHeader(fin.header))
    /\ UNCHANGED <<reqs, cache, fin>>

InitRangeWide == HandlerOff /\ fin \in WideRangeInputs /\ fout = None
SpecRangeWide == InitRangeWide /\ [][ApplyParseRangeHeaderWide]_vars

ApplyBuildCacheKey ==
    /\ fout = None
    /\ fout' = Some([k1 |-> buildCacheKey(fin.url, fin.user1, fin.range1),
                     k2 |-> buildCacheKey(fin.url, fin.user2, fin.range2)])
    /\ UNCHANGED <<reqs, cache, fin>>

InitKey ==
    /\ HandlerOff
    /\ fin \in [url : KeyUrls, user1 : KeyUsers, user2 : KeyUsers,
                range1 : KeyRanges, range2 : KeyRanges]
    /\ fout = None
SpecKey == InitKey /\ [][ApplyBuildCacheKey]_vars

ApplyValidateFileAccess ==
    /\ fout = None
    /\ fout' = Some(validateFileAccess(fin.key, fin.userId))
    /\ UNCHANGED <<reqs, cache, fin>>

InitAccess == HandlerOff /\ fin \in [key : AccessKeys, userId : AccessUsers] /\ fout = None
SpecAccess == InitAccess /\ [][ApplyValidateFileAccess]_vars

(***************************************************************************)
(* cors.ts and response.ts.  Headers are a function from lower-case header *)
(* names to values; Headers.set overrides.                                 *)
(***************************************************************************)
NoHeaders == [n \in {} |-> ""]

HeadersSet(headers, name, value) == (name :> value) @@ headers

getCorsHeaders(origin, authorizedOrigins) ==
    ("access-control-allow-origin" :> "*")
    @@ ("access-control-allow-methods" :> "GET, HEAD, OPTIONS")
    @@ ("access-control-allow-headers" :> "Range, Authorization")
    @@ ("access-control-expose-headers" :>
            "Content-Length, Content-Range, Accept-Ranges, ETag, Last-Modified")

addCorsHeaders(headers, origin, authorizedOrigins) ==
    getCorsHeaders(origin, authorizedOrigins) @@ headers

\* via is not part of the HTTP response: it records which builder made it.
Response(status, headers, body, via) ==
    [status |-> status, headers |-> headers, body |-> body, via |-> via]

createPreflightResponse(origin, authorizedOrigins) ==
    Response(204,
             HeadersSet(getCorsHeaders(origin, authorizedOrigins),
                        "access-control-max-age", "86400"),
             None, "preflight")

\* JSON.stringify({ error: message })
JsonError(message) == <<"error", message>>

createErrorResponse(message, status, cors) ==
    Response(status,
             HeadersSet(getCorsHeaders(cors.origin, cors.authorizedOrigins),
                        "content-type", "application/json"),
             Some(JsonError(message)), "error")

createHealthResponse(cors) ==
    Response(200,
             getCorsHeaders(cors.origin, cors.authorizedOrigins)
                 @@ ("content-type" :> "application/json"),
             Some(<<"status", "ok">>), "health")

\* object.writeHttpMetadata, etag, the default content type, Accept-Ranges,
\* Cache-Control and CORS: what buildR2Response and buildHeadResponse share.
ObjectHeaders(object, cors) ==
    LET h1 == IF IsSome(object.contentType)
              THEN HeadersSet(NoHeaders, "content-type", Get(object.contentType))
              ELSE NoHeaders
        h2 == HeadersSet(h1, "etag", object.httpEtag)
        h3 == IF "content-type" \in DOMAIN h2 THEN h2
              ELSE HeadersSet(h2, "content-type", "application/octet-stream")
    IN  h3

buildContentRangeHeader(r2Range, totalSize) ==
    IF r2Range = None \/ Get(r2Range).offset = None \/ Get(r2Range).length = None
    THEN None
    ELSE LET offset == Get(Get(r2Range).offset)
             length == Get(Get(r2Range).length)
         IN  Some("bytes " \o ToString(offset) \o "-" \o ToString(offset + length - 1)
                  \o "/" \o ToString(totalSize))

CacheControl == "public, max-age=" \o ToString(CACHE_MAX_AGE_SECONDS) \o ", immutable"

buildR2Response_StatusFromRequest(object, range, cors) ==
    LET h1 == HeadersSet(ObjectHeaders(object, cors), "accept-ranges", "bytes")
        h2 == HeadersSet(h1, "cache-control", CacheControl)
        h3 == addCorsHeaders(h2, cors.origin, cors.authorizedOrigins)
        contentRange == buildContentRangeHeader(object.range, object.size)
        h4 == IF IsSome(range) /\ IsSome(contentRange)
              THEN HeadersSet(h3, "content-range", Get(contentRange))
              ELSE h3
    IN  Response(IF IsSome(range) THEN 206 ELSE 200, h4, object.body, "r2")

buildR2Response(object, range, cors) ==
    LET h1 == HeadersSet(ObjectHeaders(object, cors), "accept-ranges", "bytes")
        h2 == HeadersSet(h1, "cache-control", CacheControl)
        h3 == addCorsHeaders(h2, cors.origin, cors.authorizedOrigins)
        partial == IsSome(range) /\ IsSome(object.range)
        contentRange == buildContentRangeHeader(object.range, object.size)
        h4 == IF partial /\ IsSome(contentRange)
              THEN HeadersSet(h3, "content-range", Get(contentRange))
              ELSE h3
    IN  Response(IF partial THEN 206 ELSE 200, h4, object.body, "r2")

buildHeadResponse(object, cors) ==
    LET h1 == HeadersSet(ObjectHeaders(object, cors), "content-length", ToString(object.size))
        h2 == HeadersSet(h1, "accept-ranges", "bytes")
        h3 == HeadersSet(h2, "cache-control", CacheControl)
        h4 == addCorsHeaders(h3, cors.origin, cors.authorizedOrigins)
    IN  Response(200, h4, None, "r2")

buildCachedResponse_KeepsPartial(cached, isHead, cors) ==
    Response(cached.status,
             addCorsHeaders(cached.headers, cors.origin, cors.authorizedOrigins),
             IF isHead THEN None ELSE cached.body, "cache")

buildCachedResponse_DropsBody(cached, isHead, cors) ==
    Response(IF isHead /\ cached.status = 206 THEN 200 ELSE cached.status,
             addCorsHeaders(cached.headers, cors.origin, cors.authorizedOrigins),
             None, "cache")

buildCachedResponse(cached, isHead, cors) ==
    LET cachedHeaders == addCorsHeaders(cached.headers, cors.origin, cors.authorizedOrigins)
    IN  IF isHead
        THEN Response(IF cached.status = 206 THEN 200 ELSE cached.status,
                      cachedHeaders, None, "cache")
        ELSE Response(cached.status, cachedHeaders, cached.body, "cache")

(***************************************************************************)
(* The identity collaborator (Clerk) and auth.ts.                          *)
(***************************************************************************)
BEARER_SP == <<"B", "e", "a", "r", "e", "r", " ">>
BASIC_SP == <<"B", "a", "s", "i", "c", " ">>

T1 == <<"t", "1">>
T2 == <<"t", "2">>
TBAD == <<"t", "x">>

\* The Clerk user a session token belongs to: what verification establishes.
ClerkUserOf(token) ==
    IF token = T1 THEN Some(U1) ELSE IF token = T2 THEN Some(U2) ELSE None

\* The text after "Bearer " in the Authorization header.
BearerToken(request) ==
    IF request.authorization = None THEN <<>>
    ELSE SubSeq(Get(request.authorization), 8, Len(Get(request.authorization)))

\* What createClerkClient and clerk.authenticateRequest can do with the
\* request: fail, or report the session of the token.
ClerkOutcomes(request) ==
    {"initThrows", "verifyThrows"}
    \cup (IF ClerkUserOf(BearerToken(request)) # None
          THEN {"signedIn", "signedInNoUser"}
          ELSE {"signedOut"})

AuthError(error, status, calls) ==
    [success |-> FALSE, error |-> error, status |-> status,
     clerkUserId |-> None, internalUserId |-> None, calls |-> calls]

AuthResult(clerkUserId, internalUserId, calls) ==
    [success |-> TRUE, error |-> "", status |-> 200,
     clerkUserId |-> Some(clerkUserId), internalUserId |-> Some(internalUserId),
     calls |-> calls]

\* outcome is what the Clerk calls do when they are reached.
authenticateRequest(request, outcome) ==
    IF request.authorization = None \/ ~StartsWith(Get(request.authorization), BEARER_SP)
    THEN AuthError("Unauthorized - Missing Bearer token", 401, <<>>)
    ELSE IF request.xInternalUserId = None \/ Get(request.xInternalUserId) = <<>>
    THEN AuthError("Unauthorized - Missing internal user ID", 401, <<>>)
    ELSE IF outcome = "initThrows"
    THEN AuthError("Internal server error", 500, <<"clerk.create">>)
    ELSE IF outcome = "verifyThrows"
    THEN AuthError("Unauthorized - Token verification failed", 401,
                   <<"clerk.create", "clerk.authenticateRequest">>)
    ELSE IF outcome = "signedOut"
    THEN AuthError("Unauthorized - Invalid token", 401,
                   <<"clerk.create", "clerk.authenticateRequest">>)
    ELSE IF outcome = "signedInNoUser"
    THEN AuthError("Unauthorized - Invalid token", 401,
                   <<"clerk.create", "clerk.authenticateRequest">>)
    ELSE AuthResult(Get(ClerkUserOf(BearerToken(request))),
                    Get(request.xInternalUserId),
                    <<"clerk.create", "clerk.authenticateRequest">>)

(***************************************************************************)
(* The storage collaborator (env.ANALYTICS_BUCKET).                        *)
(***************************************************************************)
K_U1_F == OwnedKey(U1, <<"f">>)
K_U1_G == OwnedKey(U1, <<"g">>)
K_U2_F == OwnedKey(U2, <<"f">>)
\* analytics/xuser_id=u2/user_id=u1/f
K_X_U2_U1_F ==
    ANALYTICS_SLASH \o <<"x">> \o USER_ID_EQ \o U2 \o <<"/">> \o USER_ID_EQ \o U1 \o <<"/", "f">>

StoredObject(key, contentType, bytes) ==
    [key |-> key, size |-> Len(bytes), httpEtag |-> "etag-" \o bytes[1],
     contentType |-> contentType, bytes |-> bytes]

\* The objects of the bucket; it does not change while the worker runs.
Bucket ==
    { StoredObject(K_U1_F, None, <<"A", "B", "C", "D">>),
      StoredObject(K_U2_F, Some("application/vnd.apache.parquet"), <<"W", "X", "Y", "Z">>),
      StoredObject(K_X_U2_U1_F, None, <<"P", "Q", "R", "S">>) }

IntMin(a, b) == IF a <= b THEN a ELSE b

\* The sub-range R2 serves for a requested R2Range, as [offset, length];
\* None when no byte of the object is in it.
ResolveRange(range, size) ==
    IF IsSome(range.suffix)
    THEN LET n == IntMin(Get(range.suffix), size)
         IN  IF n = 0 THEN None
             ELSE Some(R2Range(Some(size - n), Some(n), None))
    ELSE LET offset == Get(range.offset) IN
         IF offset >= size THEN None
         ELSE Some(R2Range(Some(offset),
                           Some(IF IsSome(range.length)
                                THEN IntMin(Get(range.length), size - offset)
                                ELSE size - offset),
                           None))

R2Object(stored, body, range) ==
    [key |-> stored.key, size |-> stored.size, httpEtag |-> stored.httpEtag,
     contentType |-> stored.contentType, body |-> body, range |-> range]

R2Null == [kind |-> "null"]
R2Throws == [kind |-> "throws"]
R2Found(object) == [kind |-> "object", object |-> object]

\* bucket.head(key): null, the object's metadata, or an error.
R2HeadOutcomes(key) ==
    {R2Throws}
    \cup (IF \E o \in Bucket : o.key = key
          THEN {R2Found(R2Object(o, None, None)) : o \in {x \in Bucket : x.key = key}}
          ELSE {R2Null})

\* The bytes of a stored object in a resolved sub-range.
RangeBytes(stored, resolved) ==
    SubSeq(stored.bytes, Get(Get(resolved).offset) + 1,
           Get(Get(resolved).offset) + Get(Get(resolved).length))

\* What a found object of bucket.get(key, { range }) can carry for a
\* requested range: the bytes of the sub-range with `range` reporting its
\* offset and length, the same bytes with `range` as the R2Range that was
\* asked for, or the whole object with no `range`.
R2RangedObjects(stored, range) ==
    LET resolved == ResolveRange(range, stored.size) IN
    IF resolved = None THEN {}
    ELSE { R2Object(stored, Some(RangeBytes(stored, resolved)), reported) :
             reported \in {resolved, Some(range)} }
         \cup { R2Object(stored, Some(stored.bytes), None) }

\* bucket.get(key, { range }): null, an object, or an error (as for a range
\* with no byte of the object in it).
R2GetOutcomes(key, range) ==
    {R2Throws}
    \cup (IF ~\E o \in Bucket : o.key = key THEN {R2Null}
          ELSE LET stored == CHOOSE o \in Bucket : o.key = key IN
               IF range = None
               THEN {R2Found(R2Object(stored, Some(stored.bytes), None))}
               ELSE {R2Found(object) : object \in R2RangedObjects(stored, Get(range))})

(***************************************************************************)
(* index.ts: the worker's fetch handler.                                   *)
(***************************************************************************)
HexDigits == <<"0", "1", "2", "3", "4", "5", "6", "7", "8", "9",
               "A", "B", "C", "D", "E", "F">>
IsHex(c) == \E d \in 1..16 : HexDigits[d] = c

\* The character a percent code stands for (the codes the requests use).
PercentChar(h1, h2) ==
    CASE <<h1, h2>> = <<"2", "F">> -> "/"
      [] <<h1, h2>> = <<"2", "E">> -> "."
      [] <<h1, h2>> = <<"2", "0">> -> " "
      [] <<h1, h2>> = <<"3", "D">> -> "="
      [] <<h1, h2>> = <<"0", "0">> -> NUL
      [] OTHER -> "?"

\* decodeURIComponent: the decoded text, or None where it throws URIError
\* (a % that two hexadecimal digits do not follow).
RECURSIVE decodeURIComponent(_)
decodeURIComponent(s) ==
    IF s = <<>> THEN Some(<<>>)
    ELSE IF Head(s) = "%"
    THEN IF Len(s) >= 3 /\ IsHex(s[2]) /\ IsHex(s[3])
         THEN LET rest == decodeURIComponent(SubSeq(s, 4, Len(s)))
              IN  IF rest = None THEN None
                  ELSE Some(<<PercentChar(s[2], s[3])>> \o Get(rest))
         ELSE None
    ELSE LET rest == decodeURIComponent(Tail(s))
         IN  IF rest = None THEN None ELSE Some(<<Head(s)>> \o Get(rest))

AUTHORIZED_ORIGINS == "https://app.example.com"

\* env.AUTHORIZED_ORIGINS is a comma-separated list: here the list, or None
\* when the variable is unset.
CorsContext(request) ==
    [origin |-> request.origin, authorizedOrigins |-> Some(<<AUTHORIZED_ORIGINS>>)]

Request(method, url, authorization, xInternalUserId, range) ==
    [method |-> method, url |-> url, authorization |-> authorization,
     xInternalUserId |-> xInternalUserId, range |-> range, origin |-> None]

NoRequest == Request("-", Url(<<>>, <<>>), None, None, None)

\* What the runtime answers when the handler throws: not a response of the worker.
UncaughtException == Response(500, NoHeaders, Some(<<"uncaught exception">>), "uncaught")

\* One execution of fetch: the request, where the handler is (pc), its
\* locals, the collaborator calls made so far, the cache entry the lookup
\* found, the object the bucket returned, the response once returned, and
\* the cache write given to ctx.waitUntil until it settles.
Handler(request, pc, fileKey, auth, range, cacheKey, calls, hit, object, resp, put) ==
    [req |-> request, pc |-> pc, fileKey |-> fileKey, auth |-> auth, range |-> range,
     cacheKey |-> cacheKey, calls |-> calls, hit |-> hit, object |-> object,
     resp |-> resp, put |-> put]

Idle == Handler(NoRequest, "idle", None, None, None, None, <<>>, None, None, None, None)

Returned(h, resp) == [h EXCEPT !.pc = "done", !.resp = Some(resp)]

\* cacheResponse: the write ctx.waitUntil keeps alive, a clone of the response.
\* by is not part of the entry: it records the request whose handler wrote it.
cacheResponse(request, cacheKey, response) ==
    Some([key |-> cacheKey, resp |-> response, by |-> request])

\* fetch from its start to `await authenticateRequest(...)`.
FetchStart(request) ==
    LET cors == CorsContext(request)
        h == Handler(request, "start", None, None, None, None, <<>>, None, None, None, None)
    IN
    IF request.method = "OPTIONS"
    THEN Returned(h, createPreflightResponse(cors.origin, cors.authorizedOrigins))
    ELSE IF request.url.path = <<"/", "h", "e", "a", "l", "t", "h">>
    THEN Returned(h, createHealthResponse(cors))
    ELSE IF ~StartsWith(request.url.path, FILE_SLASH)
    THEN Returned(h, createErrorResponse("Not found", 404, cors))
    ELSE LET fileKey == decodeURIComponent(SubSeq(request.url.path, 7, Len(request.url.path)))
         IN
         IF fileKey = None THEN Returned(h, UncaughtException)
         ELSE IF validateFileKey(Get(fileKey)) # None
         THEN Returned([h EXCEPT !.fileKey = fileKey],
                       createErrorResponse("Forbidden - Invalid file path", 403, cors))
         ELSE [h EXCEPT !.fileKey = fileKey, !.pc = "auth"]

requestRange_ErrorDropped(request) ==
    IF request.method = "HEAD" THEN ParsedRange(None, None)
    ELSE ParsedRange(parseRangeHeader(request.range).range, None)

requestRange_HeadToo(request) == parseRangeHeader(request.range)

\* The range and error the handler works with: Range is parsed for GET only.
requestRange(request) ==
    IF request.method = "HEAD" THEN ParsedRange(None, None)
    ELSE parseRangeHeader(request.range)

FetchAuthenticated_RangeFirst(h, authResult) ==
    LET request == h.req
        cors == CorsContext(request)
        h1 == [h EXCEPT !.calls = @ \o authResult.calls, !.auth = Some(authResult)]
    IN
    IF ~authResult.success
    THEN Returned(h1, createErrorResponse(authResult.error, authResult.status, cors))
    ELSE LET internalUserId == Get(authResult.internalUserId)
             accessError == validateFileAccess(Get(h.fileKey), internalUserId)
             parsed == requestRange(request)
         IN
         IF parsed.error # None
         THEN Returned(h1, createErrorResponse("Bad Request - " \o Get(parsed.error), 400, cors))
         ELSE IF accessError # None
         THEN Returned(h1, createErrorResponse("Forbidden - Access denied", 403, cors))
         ELSE [h1 EXCEPT !.range = parsed.range,
                         !.cacheKey = Some(buildCacheKey(request.url, internalUserId, request.range)),
                         !.calls = @ \o <<"cache.match">>,
                         !.pc = "lookup"]

\* fetch from the return of authenticateRequest to `await caches.default.match`.
FetchAuthenticated(h, authResult) ==
    LET request == h.req
        cors == CorsContext(request)
        h1 == [h EXCEPT !.calls = @ \o authResult.calls, !.auth = Some(authResult)]
    IN
    IF ~authResult.success
    THEN Returned(h1, createErrorResponse(authResult.error, authResult.status, cors))
    ELSE LET internalUserId == Get(authResult.internalUserId)
             accessError == validateFileAccess(Get(h.fileKey), internalUserId)
             parsed == requestRange(request)
         IN
         IF accessError # None
         THEN Returned(h1, createErrorResponse("Forbidden - Access denied", 403, cors))
         ELSE IF parsed.error # None
         THEN Returned(h1, createErrorResponse("Bad Request - " \o Get(parsed.error), 400, cors))
         ELSE [h1 EXCEPT !.range = parsed.range,
                         !.cacheKey = Some(buildCacheKey(request.url, internalUserId, request.range)),
                         !.calls = @ \o <<"cache.match">>,
                         !.pc = "lookup"]

FetchLookedUp_ReadsOnHit(h, cached) ==
    IF cached # None
    THEN Returned([h EXCEPT !.hit = cached,
                            !.calls = @ \o <<IF h.req.method = "HEAD" THEN "r2.head" ELSE "r2.get">>],
                  buildCachedResponse(Get(cached).resp, h.req.method = "HEAD",
                                      CorsContext(h.req)))
    ELSE [h EXCEPT !.pc = "fetch",
                   !.calls = @ \o <<IF h.req.method = "HEAD" THEN "r2.head" ELSE "r2.get">>]

\* fetch from the return of caches.default.match to the bucket call.
FetchLookedUp(h, cached) ==
    IF cached # None
    THEN Returned([h EXCEPT !.hit = cached],
                  buildCachedResponse(Get(cached).resp, h.req.method = "HEAD",
                                      CorsContext(h.req)))
    ELSE [h EXCEPT !.pc = "fetch",
                   !.calls = @ \o <<IF h.req.method = "HEAD" THEN "r2.head" ELSE "r2.get">>]

FetchNotFound_Cached(h) ==
    LET response == createErrorResponse("Not found", 404, CorsContext(h.req))
    IN  [Returned(h, response) EXCEPT
            !.put = cacheResponse(h.req, Get(h.cacheKey), response),
            !.calls = @ \o <<"cache.put">>]

\* The bucket returned null.
FetchNotFound(h) == Returned(h, createErrorResponse("Not found", 404, CorsContext(h.req)))

\* fetch from the return of the bucket call to the end.
FetchFetched(h, outcome) ==
    LET cors == CorsContext(h.req)
        isHead == h.req.method = "HEAD"
    IN
    IF outcome.kind = "throws" THEN Returned(h, UncaughtException)
    ELSE IF outcome.kind = "null" THEN FetchNotFound(h)
    ELSE LET h1 == [h EXCEPT !.object = Some(outcome.object)] IN
         IF isHead
         THEN LET response == buildHeadResponse(outcome.object, cors)
              IN  [Returned(h1, response) EXCEPT
                      !.put = cacheResponse(h.req, Get(h.cacheKey), response),
                      !.calls = @ \o <<"cache.put">>]
         ELSE LET response == buildR2Response(outcome.object, h.range, cors)
              IN  IF response.status = 200 \/ response.status = 206
                  THEN [Returned(h1, response) EXCEPT
                           !.put = cacheResponse(h.req, Get(h.cacheKey), response),
                           !.calls = @ \o <<"cache.put">>]
                  ELSE Returned(h1, response)

(***************************************************************************)
(* The requests clients send.                                              *)
(***************************************************************************)
Bearer(token) == Some(BEARER_SP \o token)

Cred(authorization, xInternalUserId) == [a |-> authorization, u |-> xInternalUserId]

HONEST1 == Cred(Bearer(T1), Some(U1))
HONEST2 == Cred(Bearer(T2), Some(U2))
\* The session of Clerk user u2 with X-Internal-User-Id: u1.
CLAIMS_U1 == Cred(Bearer(T2), Some(U1))
ANONYMOUS == Cred(None, None)

Creds ==
    { HONEST1, HONEST2, CLAIMS_U1, ANONYMOUS,
      Cred(None, Some(U1)),
      Cred(Bearer(TBAD), Some(U1)),
      Cred(Bearer(T1), None),
      Cred(Bearer(T1), Some(<<>>)),
      Cred(Some(BASIC_SP \o T1), Some(U1)) }

ETC_PASSWD == <<"e", "t", "c", "%", "2", "F", "p", "a", "s", "s", "w", "d">>

\* /file/<key> paths whose key validateFileKey accepts.
GoodKeyPaths ==
    { FILE_SLASH \o K_U1_F, FILE_SLASH \o K_U1_G, FILE_SLASH \o K_U2_F,
      FILE_SLASH \o K_X_U2_U1_F,
      \* analytics/user_id=/f
      FILE_SLASH \o ANALYTICS_SLASH \o USER_ID_EQ \o <<"/", "f">> }

\* /file/<key> paths with a key it rejects, or that does not decode.
BadKeyPaths ==
    { \* ../../etc/passwd
      FILE_SLASH \o <<".", ".", "%", "2", "F", ".", ".", "%", "2", "F">> \o ETC_PASSWD,
      \* analytics/user_id=u1/../f
      FILE_SLASH \o K_U1_F \o <<"%", "2", "F", ".", ".", "%", "2", "F", "f">>,
      \* /etc/passwd
      FILE_SLASH \o <<"/">> \o ETC_PASSWD,
      \* analytics/user_id=u1/f<NUL>
      FILE_SLASH \o K_U1_F \o <<"%", "0", "0">>,
      \* archive/user_id=u1/f
      FILE_SLASH \o <<"a", "r", "c", "h", "i", "v", "e", "/">> \o USER_ID_EQ \o U1 \o <<"/", "f">>,
      \* analytics/archive/f
      FILE_SLASH \o ANALYTICS_SLASH \o <<"a", "r", "c", "h", "i", "v", "e", "/", "f">>,
      \* the empty key and a blank one
      FILE_SLASH,
      FILE_SLASH \o <<"%", "2", "0">>,
      \* analytics/user_id=u1/%zz
      FILE_SLASH \o OwnedKey(U1, <<"%", "z", "z">>) }

OtherPaths == { <<"/", "h", "e", "a", "l", "t", "h">>, <<"/", "f", "i", "l", "e", "s">> }

R_0_1 == Some(BytesHeader(Some(0), Some(1)))
R_2_ == Some(BytesHeader(Some(2), None))
R_5_2 == Some(BytesHeader(Some(5), Some(2)))
R__2 == Some(BytesHeader(None, Some(2)))
R_TOO_LARGE == Some(BytesHeader(Some(0), Some(MAX_RANGE_SIZE_BYTES)))
R_SUFFIX_TOO_LARGE == Some(BytesHeader(None, Some(MAX_SUFFIX_SIZE_BYTES + 1)))

InvalidRanges == {R_5_2, R_TOO_LARGE, R_SUFFIX_TOO_LARGE}

HandlerRanges == {None, Some(<<>>), R_0_1, R_2_, R__2} \cup InvalidRanges

\* Tenants u1 and u2 with their own credentials and their own object.
OwnObjects == {[c |-> HONEST1, key |-> K_U1_F], [c |-> HONEST2, key |-> K_U2_F]}

Requests ==
    \* GET and HEAD on every path, without and with good credentials
    { Request(m, Url(p, <<>>), c.a, c.u, None) :
        m \in {"GET", "HEAD"},
        p \in GoodKeyPaths \cup BadKeyPaths \cup OtherPaths,
        c \in {ANONYMOUS, HONEST1} }
    \cup
    \* the other methods
    { Request(m, Url(p, <<>>), c.a, c.u, None) :
        m \in {"OPTIONS", "POST"},
        p \in {FILE_SLASH \o K_U1_F, FILE_SLASH \o <<"/">> \o ETC_PASSWD} \cup OtherPaths,
        c \in {ANONYMOUS, HONEST1} }
    \cup
    \* every kind of credentials on a well-formed key
    { Request(m, Url(FILE_SLASH \o K_U1_F, <<>>), c.a, c.u, None) :
        m \in {"GET", "HEAD"}, c \in Creds }
    \cup
    \* signed-in callers on the stored objects
    { Request(m, Url(FILE_SLASH \o o.key, <<>>), c.a, c.u, None) :
        m \in {"GET", "HEAD"}, o \in Bucket, c \in {HONEST1, HONEST2, CLAIMS_U1} }
    \cup
    \* a tenant on its own object, with Range
    { Request("GET", Url(FILE_SLASH \o t.key, <<>>), t.c.a, t.c.u, r) :
        t \in OwnObjects, r \in HandlerRanges }
    \cup
    { Request("HEAD", Url(FILE_SLASH \o t.key, <<>>), t.c.a, t.c.u, r) :
        t \in OwnObjects, r \in {R_0_1} \cup InvalidRanges }
    \cup
    \* a caller-supplied _uid parameter
    { Request("GET", Url(FILE_SLASH \o K_U1_F, <<Param(UID_PARAM, u)>>), c.a, c.u, None) :
        u \in {U1, U2}, c \in {HONEST1, HONEST2} }
    \cup
    \* tenant u2 on tenant u1's object with an invalid Range
    { Request("GET", Url(FILE_SLASH \o K_U1_F, <<>>), HONEST2.a, HONEST2.u, R_5_2) }

\* The requests that run side by side: tenant u1 on its own object.
ConcRequests ==
    { Request("GET", Url(FILE_SLASH \o K_U1_F, <<>>), HONEST1.a, HONEST1.u, None),
      Request("GET", Url(FILE_SLASH \o K_U1_F, <<>>), HONEST1.a, HONEST1.u, R_0_1),
      Request("HEAD", Url(FILE_SLASH \o K_U1_F, <<>>), HONEST1.a, HONEST1.u, None) }

(***************************************************************************)
(* Specification of authenticateRequest on a pair of requests: Init draws  *)
(* two requests for the same file and what Clerk does with each, the       *)
(* action authenticates both.                                              *)
(***************************************************************************)
AuthRequests ==
    { Request("GET", Url(FILE_SLASH \o K_U1_F, <<>>), c.a, c.u, None) : c \in Creds }

ApplyAuthenticateRequest ==
    /\ fout = None
    /\ fout' = Some([a1 |-> authenticateRequest(fin.r1, fin.o1),
                     a2 |-> authenticateRequest(fin.r2, fin.o2)])
    /\ UNCHANGED <<reqs, cache, fin>>

InitAuth ==
    /\ HandlerOff
    /\ \E r1 \in AuthRequests, r2 \in AuthRequests :
         \E o1 \in ClerkOutcomes(r1), o2 \in ClerkOutcomes(r2) :
            fin = [r1 |-> r1, r2 |-> r2, o1 |-> o1, o2 |-> o2]
    /\ fout = None
SpecAuth == InitAuth /\ [][ApplyAuthenticateRequest]_vars

(***************************************************************************)
(* Specification of the CORS headers: Init draws the request's Origin, the *)
(* configured origins and the response builder, the action builds the      *)
(* response and keeps its headers.                                         *)
(***************************************************************************)
OTHER_ORIGIN == "https://other.example.com"

CorsOrigins == {None, Some(AUTHORIZED_ORIGINS), Some(OTHER_ORIGIN), Some("null"), Some("")}

CorsLists ==
    {None, Some(<<>>), Some(<<AUTHORIZED_ORIGINS>>), Some(<<AUTHORIZED_ORIGINS, OTHER_ORIGIN>>)}

CorsBuilders == {"preflight", "error", "health", "r2", "head", "cached"}

\* The response a builder of response.ts or cors.ts makes for tenant u1's
\* object under the CORS context.
BuiltResponse(builder, cors) ==
    LET stored == CHOOSE o \in Bucket : o.key = K_U1_F
        object == R2Object(stored, Some(stored.bytes), None)
    IN  CASE builder = "preflight" -> createPreflightResponse(cors.origin, cors.authorizedOrigins)
          [] builder = "error" -> createErrorResponse("Not found", 404, cors)
          [] builder = "health" -> createHealthResponse(cors)
          [] builder = "r2" -> buildR2Response(object, None, cors)
          [] builder = "head" -> buildHeadResponse(object, cors)
          [] builder = "cached" ->
                buildCachedResponse(Response(200, NoHeaders, object.body, "r2"), FALSE, cors)

ApplyCors ==
    /\ fout = None
    /\ fout' = Some(BuiltResponse(fin.builder, fin.cors).headers)
    /\ UNCHANGED <<reqs, cache, fin>>

InitCors ==
    /\ HandlerOff
    /\ \E origin \in CorsOrigins, list \in CorsLists, builder \in CorsBuilders :
         fin = [cors |-> [origin |-> origin, authorizedOrigins |-> list], builder |-> builder]
    /\ fout = None
SpecCors == InitCors /\ [][ApplyCors]_vars

(***************************************************************************)
(* The handler's steps and the edge cache.                                 *)
(***************************************************************************)
MaxCache == 1

\* A request arrives and fetch runs to its first await.
Start(s) ==
    /\ reqs[s].pc = "idle"
    /\ \E request \in Requests : reqs' = [reqs EXCEPT ![s] = FetchStart(request)]
    /\ UNCHANGED <<cache, fin, fout>>

StartConc(s) ==
    /\ reqs[s].pc = "idle"
    /\ \E request \in ConcRequests : reqs' = [reqs EXCEPT ![s] = FetchStart(request)]
    /\ UNCHANGED <<cache, fin, fout>>

\* authenticateRequest returns.
AuthReturn(s) ==
    /\ reqs[s].pc = "auth"
    /\ \E outcome \in ClerkOutcomes(reqs[s].req) :
          reqs' = [reqs EXCEPT ![s] =
                      FetchAuthenticated(reqs[s], authenticateRequest(reqs[s].req, outcome))]
    /\ UNCHANGED <<cache, fin, fout>>

\* caches.default.match(cacheKey): the entry stored under the key, if any.
CacheMatch(cacheKey) ==
    IF \E e \in cache : e.key = cacheKey
    THEN Some(CHOOSE e \in cache : e.key = cacheKey)
    ELSE None

LookupReturn(s) ==
    /\ reqs[s].pc = "lookup"
    /\ reqs' = [reqs EXCEPT ![s] = FetchLookedUp(reqs[s], CacheMatch(Get(reqs[s].cacheKey)))]
    /\ UNCHANGED <<cache, fin, fout>>

\* bucket.head or bucket.get returns.
FetchReturn(s) ==
    /\ reqs[s].pc = "fetch"
    /\ \E outcome \in IF reqs[s].req.method = "HEAD"
                      THEN R2HeadOutcomes(Get(reqs[s].fileKey))
                      ELSE R2GetOutcomes(Get(reqs[s].fileKey), reqs[s].range) :
          reqs' = [reqs EXCEPT ![s] = FetchFetched(reqs[s], outcome)]
    /\ UNCHANGED <<cache, fin, fout>>

\* Two response bodies one after the other.
BodyAppend(a, b) == IF a = None THEN b ELSE IF b = None THEN a ELSE Some(Get(a) \o Get(b))

PutLands_Appends(s) ==
    /\ reqs[s].put # None
    /\ LET entry == Get(reqs[s].put)
           same == {e \in cache : e.key = entry.key}
           others == cache \ same
           merged == IF same = {} THEN entry
                     ELSE [entry EXCEPT !.resp.body =
                              BodyAppend((CHOOSE e \in same : TRUE).resp.body, @)]
       IN  /\ Cardinality(others) < MaxCache
           /\ cache' = others \cup {merged}
    /\ reqs' = [reqs EXCEPT ![s].put = None]
    /\ UNCHANGED <<fin, fout>>

\* The cache write of ctx.waitUntil completes: the entry replaces the one
\* under its key.
PutLands(s) ==
    /\ reqs[s].put # None
    /\ LET entry == Get(reqs[s].put)
           others == {e \in cache : e.key # entry.key}
       IN  /\ Cardinality(others) < MaxCache
           /\ cache' = others \cup {entry}
    /\ reqs' = [reqs EXCEPT ![s].put = None]
    /\ UNCHANGED <<fin, fout>>

PutFails_FailsRequest(s) ==
    /\ reqs[s].put # None
    /\ reqs' = [reqs EXCEPT ![s].put = None, ![s].resp = Some(UncaughtException)]
    /\ UNCHANGED <<cache, fin, fout>>

\* The cache write fails, or the cache does not keep the response.
PutFails(s) ==
    /\ reqs[s].put # None
    /\ reqs' = [reqs EXCEPT ![s].put = None]
    /\ UNCHANGED <<cache, fin, fout>>

\* The execution ends: the response was returned and the waitUntil work settled.
Finish(s) ==
    /\ reqs[s].pc = "done"
    /\ reqs[s].put = None
    /\ reqs' = [reqs EXCEPT ![s] = Idle]
    /\ UNCHANGED <<cache, fin, fout>>

\* The cache drops an entry (expiry, eviction).
CacheEvict ==
    /\ \E e \in cache : cache' = cache \ {e}
    /\ UNCHANGED <<reqs, fin, fout>>

Init ==
    /\ reqs = <<Idle>>
    /\ cache = {}
    /\ fin = None
    /\ fout = None

Next ==
    \/ \E s \in DOMAIN reqs : Start(s)
    \/ \E s \in DOMAIN reqs : AuthReturn(s)
    \/ \E s \in DOMAIN reqs : LookupReturn(s)
    \/ \E s \in DOMAIN reqs : FetchReturn(s)
    \/ \E s \in DOMAIN reqs : PutLands(s)
    \/ \E s \in DOMAIN reqs : PutFails(s)
    \/ \E s \in DOMAIN reqs : Finish(s)
    \/ CacheEvict

Spec == Init /\ [][Next]_vars

\* Executions of fetch side by side, as the runtime interleaves them at
\* their awaits.
MaxConcurrent == 2

InitConc ==
    /\ reqs = [s \in 1..MaxConcurrent |-> Idle]
    /\ cache = {}
    /\ fin = None
    /\ fout = None

NextConc ==
    \/ \E s \in DOMAIN reqs : StartConc(s)
    \/ \E s \in DOMAIN reqs : AuthReturn(s)
    \/ \E s \in DOMAIN reqs : LookupReturn(s)
    \/ \E s \in DOMAIN reqs : FetchReturn(s)
    \/ \E s \in DOMAIN reqs : PutLands(s)
    \/ \E s \in DOMAIN reqs : PutFails(s)
    \/ \E s \in DOMAIN reqs : Finish(s)
    \/ CacheEvict

SpecConc == InitConc /\ [][NextConc]_vars

(***************************************************************************)
(* part_002 (and index.ts, lines 14 to 128, the same without CORS): the    *)
(* proxy of presigned URLs, /analytics/file?url=<presigned URL>.           *)
(***************************************************************************)
URL_PARAM == <<"u", "r", "l">>
ANALYTICS_FILE == <<"/", "a", "n", "a", "l", "y", "t", "i", "c", "s", "/", "f", "i", "l", "e">>
BYTES_0_0 == BytesHeader(Some(0), Some(0))

\* URLSearchParams.get: the value of the first parameter of the name.
SearchParamsGet(params, name) ==
    LET at == {i \in 1..Len(params) : params[i].name = name}
    IN  IF at = {} THEN None ELSE Some(params[SetMin(at)].value)

addCors(headers) ==
    ("access-control-allow-origin" :> "*")
    @@ ("access-control-allow-methods" :> "GET, HEAD, OPTIONS")
    @@ ("access-control-allow-headers" :> "Range")
    @@ ("access-control-expose-headers" :>
            "Content-Length, Content-Range, Accept-Ranges, ETag, Last-Modified")
    @@ headers

passthroughHeaders ==
    {"content-type", "content-length", "content-range", "accept-ranges", "etag", "last-modified"}

\* for (const h of passthroughHeaders) { if (v) responseHeaders.set(h, v) }
Passthrough(headers) ==
    [n \in {m \in DOMAIN headers \cap passthroughHeaders : headers[m] # ""} |-> headers[n]]

ProxyCacheControl == "public, max-age=31536000, immutable"

\* The object behind the presigned URL, and the URL.
PresignedTarget == <<"r", "2", "/", "f">>
PresignedBytes == <<"A", "B", "C", "D">>

Upstream(status, headers, body) ==
    [kind |-> "response", status |-> status, headers |-> headers, body |-> body]

UpstreamFull ==
    Upstream(200,
             ("content-type" :> "application/octet-stream")
             @@ ("content-length" :> ToString(Len(PresignedBytes)))
             @@ ("x-amz-request-id" :> "r1"),
             Some(PresignedBytes))

\* The 206 of the storage for a range it resolves inside the object.
UpstreamPartial(offset, length) ==
    Upstream(206,
             ("content-type" :> "application/octet-stream")
             @@ ("content-length" :> ToString(length))
             @@ ("content-range" :> "bytes " \o ToString(offset) \o "-"
                                      \o ToString(offset + length - 1) \o "/"
                                      \o ToString(Len(PresignedBytes))),
             Some(SubSeq(PresignedBytes, offset + 1, offset + length)))

UpstreamDenied ==
    Upstream(403, ("content-type" :> "application/xml"), Some(<<"AccessDenied">>))

UpstreamMissing ==
    Upstream(404, ("content-type" :> "application/xml"), Some(<<"NoSuchKey">>))

\* fetch(targetUrl, { method: 'GET', headers }): it throws, or the storage
\* answers: 403 for a signature it refuses, 404 for another URL, the object,
\* or the part of it a bytes=<a>-<b> range inside the object names.
UpstreamOutcomes(targetUrl, range) ==
    {[kind |-> "throws"], UpstreamDenied}
    \cup (IF targetUrl # PresignedTarget THEN {UpstreamMissing}
          ELSE {UpstreamFull}
               \cup (LET p == parseRangeHeader(range).range IN
                     IF /\ p # None /\ Get(p).offset # None /\ Get(p).length # None
                        /\ Get(Get(p).offset) + Get(Get(p).length) <= Len(PresignedBytes)
                     THEN {UpstreamPartial(Get(Get(p).offset), Get(Get(p).length))}
                     ELSE {}))

\* fetch from its start to `await cache.match(cacheKey)`.  fileKey holds
\* targetUrl and range the Range text sent upstream.
ProxyStart(request) ==
    LET h == Handler(request, "start", None, None, None, None, <<>>, None, None, None, None)
        encoded == SearchParamsGet(request.url.query, URL_PARAM)
    IN
    IF request.method = "OPTIONS"
    THEN Returned(h, Response(204,
                              ("access-control-allow-origin" :> "*")
                              @@ ("access-control-allow-methods" :> "GET, HEAD, OPTIONS")
                              @@ ("access-control-allow-headers" :> "Range")
                              @@ ("access-control-max-age" :> "86400"),
                              None, "preflight"))
    ELSE IF encoded = None \/ Get(encoded) = <<>>
    THEN Returned(h, Response(400, addCors(NoHeaders),
                              Some(<<"Missing url parameter">>), "error"))
    ELSE LET decoded == decodeURIComponent(Get(encoded))
             targetUrl == IF decoded = None THEN Get(encoded) ELSE Get(decoded)
             isHead == request.method = "HEAD"
             range == IF request.range # None THEN request.range
                      ELSE IF isHead THEN Some(BYTES_0_0) ELSE None
             sent == IF IsSome(range) /\ Get(range) # <<>> THEN range ELSE None
         IN  [h EXCEPT !.fileKey = Some(targetUrl),
                       !.range = sent,
                       !.cacheKey = Some(CacheKey(UrlToString(request.url), sent)),
                       !.calls = <<"cache.match">>,
                       !.pc = "lookup"]

\* From the return of cache.match to `await fetch(targetUrl, ...)`.
ProxyLookedUp(h, cached) ==
    IF cached # None
    THEN Returned([h EXCEPT !.hit = cached],
                  Response(Get(cached).resp.status, addCors(Get(cached).resp.headers),
                           Get(cached).resp.body, "cache"))
    ELSE [h EXCEPT !.pc = "fetch", !.calls = @ \o <<"fetch">>]

\* From the return of the upstream fetch to the end.
ProxyFetched(h, upstream) ==
    IF upstream.kind = "throws" THEN Returned(h, UncaughtException)
    ELSE LET responseHeaders ==
                 addCors(HeadersSet(Passthrough(upstream.headers),
                                    "cache-control", ProxyCacheControl))
             ok == upstream.status \in 200..299
             response ==
                 IF h.req.method = "HEAD"
                 THEN Response(IF ok THEN 200 ELSE upstream.status, responseHeaders,
                               None, "upstream")
                 ELSE Response(upstream.status, responseHeaders, upstream.body, "upstream")
             h1 == [h EXCEPT !.object = Some(upstream)]
         IN  IF upstream.status = 200 \/ upstream.status = 206
             THEN [Returned(h1, response) EXCEPT
                      !.put = cacheResponse(h.req, Get(h.cacheKey), response),
                      !.calls = @ \o <<"cache.put">>]
             ELSE Returned(h1, response)

\* The requests sent to the proxy.
ProxyUrls ==
    { Url(ANALYTICS_FILE, q) :
        q \in { <<>>,
                <<Param(URL_PARAM, <<>>)>>,
                <<Param(URL_PARAM, PresignedTarget)>>,
                <<Param(URL_PARAM, <<"r", "2", "%", "2", "F", "f">>)>>,
                <<Param(URL_PARAM, <<"r", "2", "/", "%", "z", "z">>)>> } }

ProxyRequests ==
    { Request(m, u, None, None, r) :
        m \in {"GET", "HEAD", "OPTIONS"},
        u \in ProxyUrls,
        r \in {None, Some(<<>>), Some(BYTES_0_0), R_0_1} }

ProxyArrive(s) ==
    /\ reqs[s].pc = "idle"
    /\ \E request \in ProxyRequests : reqs' = [reqs EXCEPT ![s] = ProxyStart(request)]
    /\ UNCHANGED <<cache, fin, fout>>

ProxyLookupReturn(s) ==
    /\ reqs[s].pc = "lookup"
    /\ reqs' = [reqs EXCEPT ![s] = ProxyLookedUp(reqs[s], CacheMatch(Get(reqs[s].cacheKey)))]
    /\ UNCHANGED <<cache, fin, fout>>

ProxyFetchReturn(s) ==
    /\ reqs[s].pc = "fetch"
    /\ \E upstream \in UpstreamOutcomes(Get(reqs[s].fileKey), reqs[s].range) :
          reqs' = [reqs EXCEPT ![s] = ProxyFetched(reqs[s], upstream)]
    /\ UNCHANGED <<cache, fin, fout>>

NextProxy ==
    \/ \E s \in DOMAIN reqs : ProxyArrive(s)
    \/ \E s \in DOMAIN reqs : ProxyLookupReturn(s)
    \/ \E s \in DOMAIN reqs : ProxyFetchReturn(s)
    \/ \E s \in DOMAIN reqs : PutLands(s)
    \/ \E s \in DOMAIN reqs : PutFails(s)
    \/ \E s \in DOMAIN reqs : Finish(s)
    \/ CacheEvict

SpecProxy == Init /\ [][NextProxy]_vars

(***************************************************************************)
(* routes/flag.ts and routes/cache-headers.ts: GET /flag?code=us.          *)
(***************************************************************************)
CODE_PARAM == <<"c", "o", "d", "e">>
FLAG_PATH == <<"/", "f", "l", "a", "g">>

LowerLetters ==
    {"a", "b", "c", "d", "e", "f", "g", "h", "i", "j", "k", "l", "m",
     "n", "o", "p", "q", "r", "s", "t", "u", "v", "w", "x", "y", "z"}

isValidCountryCode_AnyTwo(code) == Len(code) = 2

\* /^[a-z]{2}$/.test(code)
isValidCountryCode(code) ==
    Len(code) = 2 /\ \A i \in 1..2 : code[i] \in LowerLetters

STATIC_CACHE_HEADERS ==
    ("cache-control" :> "public, max-age=31536000, immutable")
    @@ ("cloudflare-cdn-cache-control" :> "public, max-age=31536000, immutable")
    @@ ("cdn-cache-control" :> "public, max-age=31536000, immutable")

ERROR_CACHE_HEADERS ==
    ("cache-control" :> "public, max-age=3600, stale-while-revalidate=86400")
    @@ ("cloudflare-cdn-cache-control" :> "public, max-age=21600, stale-while-revalidate=86400")
    @@ ("cdn-cache-control" :> "public, max-age=10800, stale-while-revalidate=86400")
    @@ ("vary" :> "Accept-Encoding")

NO_CACHE_HEADERS ==
    ("cache-control" :> "no-store, no-cache, must-revalidate, proxy-revalidate")
    @@ ("cloudflare-cdn-cache-control" :> "no-store, no-cache, must-revalidate")
    @@ ("pragma" :> "no-cache")
    @@ ("expires" :> "0")

\* createErrorResponse of flag.ts: Response.json({ error: message }, ...).
createFlagErrorResponse(message, status, origin, authorizedOrigins, cacheHeaders) ==
    Response(status,
             cacheHeaders @@ getCorsHeaders(origin, authorizedOrigins)
                 @@ ("content-type" :> "application/json"),
             Some(JsonError(message)), "error")

\* The flags the upstream site has.
FlagCodes == {<<"u", "s">>, <<"g", "b">>}

FlagSvg(code) == <<"svg">> \o code

\* fetch(flagUrl, { signal: AbortSignal.timeout(5000) }) and response.text():
\* the fetch throws or times out, or the site answers and the body is read
\* or the read throws.
FlagOutcomes(code) ==
    { [kind |-> "throws"], [kind |-> "timeout"],
      [kind |-> "response", status |-> 500, text |-> Some(<<"error">>)],
      [kind |-> "response", status |-> 200, text |-> None] }
    \cup (IF code \in FlagCodes
          THEN { [kind |-> "response", status |-> 200, text |-> Some(FlagSvg(code))] }
          ELSE { [kind |-> "response", status |-> 404, text |-> Some(<<"not found">>)] })

\* handleFlagRequest from its start to `await cache.match(cacheKey)`.
\* fileKey holds the code.
FlagStart(request) ==
    LET h == Handler(request, "start", None, None, None, None, <<>>, None, None, None, None)
        cors == CorsContext(request)
        code == SearchParamsGet(request.url.query, CODE_PARAM)
    IN
    IF code = None \/ Get(code) = <<>>
    THEN Returned(h, createFlagErrorResponse("Missing country code parameter", 400,
                                             cors.origin, cors.authorizedOrigins,
                                             NO_CACHE_HEADERS))
    ELSE IF ~isValidCountryCode(Get(code))
    THEN Returned(h, createFlagErrorResponse(
                         "Invalid country code. Expected 2 lowercase letters",
                         400, cors.origin, cors.authorizedOrigins, NO_CACHE_HEADERS))
    ELSE [h EXCEPT !.fileKey = code,
                   !.cacheKey = Some(CacheKey(UrlToString(request.url), None)),
                   !.calls = <<"cache.match">>,
                   !.pc = "lookup"]

\* From the return of cache.match to `await fetch(flagUrl, ...)`.
FlagLookedUp(h, cached) ==
    IF cached # None
    THEN Returned([h EXCEPT !.hit = cached], [Get(cached).resp EXCEPT !.via = "cache"])
    ELSE [h EXCEPT !.pc = "fetch", !.calls = @ \o <<"fetch">>]

\* From the return of the upstream fetch to the end.
FlagFetched(h, outcome) ==
    LET cors == CorsContext(h.req)
        h1 == [h EXCEPT !.object = Some(outcome)]
    IN
    IF outcome.kind \in {"throws", "timeout"}
    THEN Returned(h1, createFlagErrorResponse("Failed to fetch flag", 500, cors.origin,
                                              cors.authorizedOrigins, ERROR_CACHE_HEADERS))
    ELSE IF outcome.status \notin 200..299
    THEN Returned(h1, createFlagErrorResponse("Flag not found", 404, cors.origin,
                                              cors.authorizedOrigins, ERROR_CACHE_HEADERS))
    ELSE IF outcome.text = None
    THEN Returned(h1, createFlagErrorResponse("Failed to fetch flag", 500, cors.origin,
                                              cors.authorizedOrigins, ERROR_CACHE_HEADERS))
    ELSE LET flagResponse ==
                 Response(200,
                          STATIC_CACHE_HEADERS
                              @@ getCorsHeaders(cors.origin, cors.authorizedOrigins)
                              @@ ("content-type" :> "image/svg+xml"),
                          outcome.text, "upstream")
         IN  [Returned(h1, flagResponse) EXCEPT
                 !.put = cacheResponse(h.req, Get(h.cacheKey), flagResponse),
                 !.calls = @ \o <<"cache.put">>]

\* The requests sent to /flag.
FlagQueries ==
    { <<>>, <<Param(<<"x">>, <<"1">>)>> }
    \cup { <<Param(CODE_PARAM, c)>> :
             c \in { <<>>, <<"u", "s">>, <<"g", "b">>, <<"z", "z">>, <<"U", "S">>, <<"u">>,
                     <<"u", "s", "a">>, <<"u", "1">>, <<"u", "s", " ">>, <<" ", "u", "s">> } }
    \cup { <<Param(CODE_PARAM, <<"u", "s">>), Param(<<"x">>, <<"1">>)>>,
           <<Param(CODE_PARAM, <<"U", "S">>), Param(CODE_PARAM, <<"u", "s">>)>> }

FlagRequests ==
    { Request(m, Url(FLAG_PATH, q), None, None, None) : m \in {"GET", "HEAD"}, q \in FlagQueries }

FlagArrive(s) ==
    /\ reqs[s].pc = "idle"
    /\ \E request \in FlagRequests : reqs' = [reqs EXCEPT ![s] = FlagStart(request)]
    /\ UNCHANGED <<cache, fin, fout>>

FlagLookupReturn(s) ==
    /\ reqs[s].pc = "lookup"
    /\ reqs' = [reqs EXCEPT ![s] = FlagLookedUp(reqs[s], CacheMatch(Get(reqs[s].cacheKey)))]
    /\ UNCHANGED <<cache, fin, fout>>

FlagFetchReturn(s) ==
    /\ reqs[s].pc = "fetch"
    /\ \E outcome \in FlagOutcomes(Get(reqs[s].fileKey)) :
          reqs' = [reqs EXCEPT ![s] = FlagFetched(reqs[s], outcome)]
    /\ UNCHANGED <<cache, fin, fout>>

NextFlag ==
    \/ \E s \in DOMAIN reqs : FlagArrive(s)
    \/ \E s \in DOMAIN reqs : FlagLookupReturn(s)
    \/ \E s \in DOMAIN reqs : FlagFetchReturn(s)
    \/ \E s \in DOMAIN reqs : PutLands(s)
    \/ \E s \in DOMAIN reqs : PutFails(s)
    \/ \E s \in DOMAIN reqs : Finish(s)
    \/ CacheEvict

SpecFlag == Init /\ [][NextFlag]_vars

(***************************************************************************)
(* Vocabulary of the properties.                                           *)
(***************************************************************************)
\* The path segments of a key: the texts between its "/" characters.
RECURSIVE Segments(_)
Segments(key) ==
    IF \E i \in 1..Len(key) : key[i] = "/"
    THEN LET i == SetMin({j \in 1..Len(key) : key[j] = "/"})
         IN  <<SubSeq(key, 1, i - 1)>> \o Segments(SubSeq(key, i + 1, Len(key)))
    ELSE <<key>>

\* A segment user_id=<v> with a non-empty v.
IsMarkerSegment(seg) == StartsWith(seg, USER_ID_EQ) /\ Len(seg) > Len(USER_ID_EQ)

\* The ownership marker of a key: the v of its first user_id=<v> segment.
MarkerOf(key) ==
    LET segs == Segments(key)
        at == {i \in 1..Len(segs) : IsMarkerSegment(segs[i])}
    IN  IF at = {} THEN None
        ELSE Some(SubSeq(segs[SetMin(at)], Len(USER_ID_EQ) + 1, Len(segs[SetMin(at)])))

\* The request is one the /file/ handler serves, and its key decodes.
IsFileRequest(request) ==
    /\ request.method \in {"GET", "HEAD", "POST"}
    /\ StartsWith(request.url.path, FILE_SLASH)
    /\ decodeURIComponent(SubSeq(request.url.path, 7, Len(request.url.path))) # None

DecodedKey(request) ==
    Get(decodeURIComponent(SubSeq(request.url.path, 7, Len(request.url.path))))

\* The executions that have returned a response.
Done == {s \in DOMAIN reqs : reqs[s].pc = "done"}

CallsCacheOrStorage(h) ==
    \E i \in 1..Len(h.calls) : h.calls[i] \in {"cache.match", "cache.put", "r2.head", "r2.get"}

(***************************************************************************)
(* C1.                                                                     *)
(***************************************************************************)
\* C1: every 200 or 206 response of the /file/ handler to a GET or HEAD,
\* served from storage or from the edge cache, goes to a request whose
\* verified caller is the tenant named by the ownership marker of the
\* requested key.
C1_ServedOnlyToOwner ==
    \A s \in Done :
        LET h == reqs[s] IN
        (/\ h.req.method \in {"GET", "HEAD"}
         /\ Get(h.resp).status \in {200, 206}
         /\ Get(h.resp).via \in {"r2", "cache"})
        => /\ h.auth # None
           /\ Get(h.auth).success
           /\ Get(h.auth).clerkUserId = MarkerOf(Get(h.fileKey))

(***************************************************************************)
(* C2.                                                                     *)
(***************************************************************************)
\* C2: for two distinct tenant ids, the same request URL and the same Range
\* header value, the two cache keys buildCacheKey makes are unequal, also
\* when the URL already carries a _uid query parameter.
C2_DistinctTenantsDistinctKeys ==
    (fout # None /\ fin.user1 # fin.user2 /\ fin.range1 = fin.range2)
    => Get(fout).k1 # Get(fout).k2

\* Tenant u1 and tenant u2 key a URL that carries _uid=u2 (and _uid=u1 after it).
C2_CallerSuppliedUid ==
    /\ fout # None
    /\ fin.user1 = U1 /\ fin.user2 = U2 /\ fin.range1 = fin.range2
    /\ Len(fin.url.query) = 3 /\ fin.url.query[1] = Param(UID_PARAM, U2)
    /\ Get(fout).k1.url # Get(fout).k2.url

(***************************************************************************)
(* C3.                                                                     *)
(***************************************************************************)
\* C3 as stated: for the same tenant and URL, two requests whose Range
\* header texts differ, or of which only one has a Range header, get
\* unequal cache keys.
C3_RangeTextsDistinctKeys ==
    (fout # None /\ fin.user1 = fin.user2 /\ fin.range1 # fin.range2)
    => Get(fout).k1 # Get(fout).k2

\* C3: for the same tenant and URL, two requests whose Range header texts
\* differ, or of which only one has a Range header, get unequal cache keys,
\* unless the one Range header there is, or each of the two, is empty.
C3_NonEmptyRangeTextsDistinctKeys ==
    (/\ fout # None /\ fin.user1 = fin.user2 /\ fin.range1 # fin.range2
     /\ ~(fin.range1 \in {None, Some(<<>>)} /\ fin.range2 \in {None, Some(<<>>)}))
    => Get(fout).k1 # Get(fout).k2

\* bytes=0-99 against bytes=100-199 for tenant u1.
C3_TwoRangesKeyed ==
    /\ fout # None
    /\ fin.user1 = U1 /\ fin.user2 = U1
    /\ fin.range1 = Some(BytesHeader(Some(0), Some(99)))
    /\ fin.range2 = Some(BytesHeader(Some(100), Some(199)))
    /\ Get(fout).k1.url = Get(fout).k2.url
    /\ Get(fout).k1.range # Get(fout).k2.range

(***************************************************************************)
(* C4.                                                                     *)
(***************************************************************************)
\* C4: a GET without Range that hits the cache entry an identical request
\* stored from its storage response is answered with that response's
\* status, body and headers.
C4_HitRepeatsMiss ==
    \A s \in Done :
        LET h == reqs[s] IN
        (/\ h.req.method = "GET" /\ h.req.range = None
         /\ h.hit # None /\ Get(h.hit).by = h.req)
        => /\ Get(h.hit).resp.via = "r2"
           /\ Get(h.resp).via = "cache"
           /\ Get(h.resp).status = Get(h.hit).resp.status
           /\ Get(h.resp).body = Get(h.hit).resp.body
           /\ Get(h.resp).headers = Get(h.hit).resp.headers

\* Tenant u1's second GET of its object is served the four bytes from the cache.
C4_SecondCallServedFromCache ==
    \E s \in Done :
        LET h == reqs[s] IN
        /\ h.req.method = "GET" /\ h.req.range = None
        /\ h.hit # None /\ Get(h.hit).by = h.req
        /\ Get(h.resp).via = "cache"
        /\ Get(h.resp).status = 200
        /\ Get(h.resp).body = Some(<<"A", "B", "C", "D">>)

(***************************************************************************)
(* C5.                                                                     *)
(***************************************************************************)
\* C5: a response to a HEAD request on /file/<key> never has status 206,
\* and the ones built from a storage object or from a cache entry have no
\* body, also when the entry holds a 206 stored by a GET.
C5_HeadNeverPartialNorBody ==
    \A s \in Done :
        LET h == reqs[s] IN
        (h.req.method = "HEAD" /\ StartsWith(h.req.url.path, FILE_SLASH))
        => /\ Get(h.resp).status # 206
           /\ Get(h.resp).via \in {"r2", "cache"} => Get(h.resp).body = None

\* A HEAD request hit the 206 entry a GET with Range stored.
C5_HeadHitsPartialEntry ==
    \E s \in Done :
        LET h == reqs[s] IN
        /\ h.req.method = "HEAD"
        /\ h.hit # None
        /\ Get(h.hit).resp.status = 206 /\ Get(h.hit).resp.body # None
        /\ Get(h.hit).by.method = "GET"
        /\ Get(h.resp).status = 200 /\ Get(h.resp).body = None

(***************************************************************************)
(* C6.                                                                     *)
(***************************************************************************)
\* The decoded key has a .. segment, starts with "/", has a null byte or
\* lacks the analytics/ prefix.
IsUnsafeKey(key) ==
    \/ \E i \in 1..Len(Segments(key)) : Segments(key)[i] = <<".", ".">>
    \/ StartsWith(key, <<"/">>)
    \/ \E i \in 1..Len(key) : key[i] = NUL
    \/ ~StartsWith(key, ANALYTICS_SLASH)

\* C6: a /file/ request whose decoded key has a parent-directory segment,
\* starts with "/", has a null byte or lacks the analytics/ prefix is
\* answered 403, and its execution calls neither Clerk, the cache nor the
\* bucket.
C6_UnsafeKeyRejectedFirst ==
    \A s \in DOMAIN reqs :
        LET h == reqs[s] IN
        (h.pc # "idle" /\ IsFileRequest(h.req) /\ IsUnsafeKey(DecodedKey(h.req)))
        => /\ h.pc = "done"
           /\ Get(h.resp).status = 403
           /\ h.calls = <<>>
           /\ h.put = None

\* ../../etc/passwd asked for with good credentials.
C6_TraversalRejected ==
    \E s \in Done :
        LET h == reqs[s] IN
        /\ IsFileRequest(h.req)
        /\ DecodedKey(h.req) = <<".", ".", "/", ".", ".", "/", "e", "t", "c", "/",
                                 "p", "a", "s", "s", "w", "d">>
        /\ h.req.authorization = HONEST1.a
        /\ Get(h.resp).status = 403
        /\ h.calls = <<>>

(***************************************************************************)
(* C7.                                                                     *)
(***************************************************************************)
\* C7: a /file/ request whose key has no user_id= segment never reaches the
\* cache or the bucket, and is answered 403 with the access-denied outcome.
C7_NoMarkerAccessDenied ==
    \A s \in DOMAIN reqs :
        LET h == reqs[s] IN
        (/\ h.pc # "idle" /\ IsFileRequest(h.req)
         /\ ~IsUnsafeKey(DecodedKey(h.req))
         /\ MarkerOf(DecodedKey(h.req)) = None)
        => /\ ~CallsCacheOrStorage(h)
           /\ h.pc = "done"
              => /\ Get(h.resp).status = 403
                 /\ Get(h.resp).body = Some(JsonError("Forbidden - Access denied"))

(***************************************************************************)
(* C8.                                                                     *)
(***************************************************************************)
\* C8: validateFileAccess allows exactly when the key has a user_id=<v>
\* segment and v is the tenant id; it denies with the marker-missing reason
\* when the key has no such segment and with the ownership-mismatch reason
\* when v is not the tenant id.
C8_AllowsIffMarkerSegmentIsTenant ==
    fout # None =>
        LET m == MarkerOf(fin.key) IN
        Get(fout) = IF m = None THEN Some("Could not extract user_id from file key")
                    ELSE IF Get(m) # fin.userId
                    THEN Some("User attempted to access file owned by another user")
                    ELSE None

(***************************************************************************)
(* C9.                                                                     *)
(***************************************************************************)
\* C9: two requests with the same valid Bearer token that both authenticate
\* get the same tenant id, whatever their other headers.
C9_TokenAloneDecidesTenant ==
    (/\ fout # None
     /\ fin.r1.authorization = fin.r2.authorization
     /\ Get(fout).a1.success /\ Get(fout).a2.success)
    => Get(fout).a1.internalUserId = Get(fout).a2.internalUserId

C13_SuffixLimit ==
    (fout # None /\ fin.exact /\ fin.a = None /\ IsSome(fin.b))
    => Get(fout) =
         IF Get(fin.b) > MAX_SUFFIX_SIZE_BYTES
         THEN ParsedRange(None,
                  Some("Suffix range too large: " \o ToString(Get(fin.b)) \o " bytes exceeds "
                       \o ToString(MAX_SUFFIX_SIZE_BYTES) \o " byte limit"))
         ELSE ParsedRange(Some(R2Range(None, None, fin.b)), None)

\* bytes=-10485760: a suffix of exactly MAX_SUFFIX_SIZE_BYTES bytes.
C13_LargestSuffixParsed ==
    /\ fout # None /\ fin.exact
    /\ fin.a = None /\ fin.b = Some(MAX_SUFFIX_SIZE_BYTES)
    /\ Get(fout).error = None
    /\ Get(Get(fout).range).suffix = Some(MAX_SUFFIX_SIZE_BYTES)

(***************************************************************************)
(* C14.                                                                    *)
(***************************************************************************)
\* The whole text is bytes=<digits>-<digits>, either run of digits possibly
\* empty.
MatchesRangeGrammar(h) ==
    /\ StartsWith(h, BYTES_EQ)
    /\ LET hyphen == Len(BYTES_EQ) + Len(DigitRun(h, Len(BYTES_EQ) + 1)) + 1
       IN  /\ hyphen <= Len(h)
           /\ h[hyphen] = "-"
           /\ hyphen + Len(DigitRun(h, hyphen + 1)) = Len(h)

\* C14: for a Range header that is absent, is bytes=- or is not of the
\* grammar bytes=<start>-<end>, parseRangeHeader returns no range and no
\* error.
C14_MalformedTreatedAsAbsent ==
    (/\ fout # None
     /\ \/ fin.header = None
        \/ Get(fin.header) = BytesHeader(None, None)
        \/ ~MatchesRangeGrammar(Get(fin.header)))
    => Get(fout) = ParsedRange(None, None)

(***************************************************************************)
(* C15.                                                                    *)
(***************************************************************************)
\* C15: for a header bytes=a-, parseRangeHeader returns the range
\* {offset: a} with no error, whatever a is.
C15_OpenEndedUnlimited ==
    (fout # None /\ fin.exact /\ IsSome(fin.a) /\ fin.b = None)
    => Get(fout) = ParsedRange(Some(R2Range(fin.a, None, None)), None)

\* bytes=52428802-: an offset beyond MAX_RANGE_SIZE_BYTES.
C15_OffsetBeyondLimit ==
    /\ fout # None /\ fin.exact
    /\ fin.a = Some(MAX_RANGE_SIZE_BYTES + 2) /\ fin.b = None
    /\ Get(fout).error = None
    /\ Get(Get(fout).range).offset = Some(MAX_RANGE_SIZE_BYTES + 2)
    /\ Get(Get(fout).range).length = None

(***************************************************************************)
(* C16 and C17.                                                            *)
(***************************************************************************)
\* The execution authenticated the caller and validateFileAccess allowed the
\* key: it came to the range validation of index.ts.
ReachedRangeValidation(h) ==
    /\ h.pc # "idle" /\ IsFileRequest(h.req)
    /\ h.auth # None /\ Get(h.auth).success
    /\ validateFileAccess(Get(h.fileKey), Get(Get(h.auth).internalUserId)) = None

\* C16: when parseRangeHeader returns an error for the Range header of a
\* GET /file/ request, the response is 400 and the execution makes no cache
\* lookup, no storage call and no cache write.
C16_RangeErrorIs400 ==
    \A s \in DOMAIN reqs :
        LET h == reqs[s] IN
        (/\ h.req.method = "GET" /\ ReachedRangeValidation(h)
         /\ parseRangeHeader(h.req.range).error # None)
        => /\ h.pc = "done"
           /\ Get(h.resp).status = 400
           /\ ~CallsCacheOrStorage(h)
           /\ h.put = None

\* Tenant u1's GET with bytes=0-52428800 was answered 400.
C16_OversizeRangeRejected ==
    \E s \in Done :
        LET h == reqs[s] IN
        /\ h.req.method = "GET" /\ ReachedRangeValidation(h)
        /\ h.req.range = R_TOO_LARGE
        /\ Get(h.resp).status = 400
        /\ h.calls = <<"clerk.create", "clerk.authenticateRequest">>

StoredAt(key) == CHOOSE o \in Bucket : o.key = key

\* C18: a GET that missed the cache and found the object is answered 206
\* exactly when the parsed range is present and the object carries a range;
\* otherwise 200 with the body the bucket returned, the whole object when
\* no range was asked for.
C18_PartialIffRangeFulfilled ==
    \A s \in Done :
        LET h == reqs[s]
            partial == h.range # None /\ Get(h.object).range # None
        IN
        (h.req.method = "GET" /\ Get(h.resp).via = "r2")
        => /\ Get(h.resp).status = IF partial THEN 206 ELSE 200
           /\ Get(h.resp).body = Get(h.object).body
           /\ h.range = None => Get(h.resp).body = Some(StoredAt(Get(h.fileKey)).bytes)

\* A GET with bytes=2- for which the bucket reported no range: 200, whole body.
C18_RangeNotReported ==
    \E s \in Done :
        LET h == reqs[s] IN
        /\ h.req.method = "GET" /\ h.req.range = R_2_
        /\ Get(h.resp).via = "r2"
        /\ h.range # None /\ Get(h.object).range = None
        /\ Get(h.resp).status = 200
        /\ Get(h.resp).body = Some(<<"A", "B", "C", "D">>)

\* C19: a 206 response built by buildR2Response has a Content-Range header,
\* bytes <o>-<o+l-1>/<total> for the offset o and length l the bucket
\* reported and the object's size.
C19_PartialHasContentRange ==
    \A s \in Done :
        LET h == reqs[s]
            reported == Get(Get(h.object).range)
        IN
        (Get(h.resp).via = "r2" /\ Get(h.resp).status = 206)
        => /\ "content-range" \in DOMAIN Get(h.resp).headers
           /\ reported.offset # None /\ reported.length # None
           /\ Get(h.resp).headers["content-range"] =
                "bytes " \o ToString(Get(reported.offset)) \o "-"
                \o ToString(Get(reported.offset) + Get(reported.length) - 1)
                \o "/" \o ToString(Get(h.object).size)

(***************************************************************************)
(* C20.                                                                    *)
(***************************************************************************)
ErrorStatuses == {400, 401, 403, 404, 500}

\* C20: an execution that ends with 400, 401, 403, 404 or 500 starts no
\* cache write, and every entry of the cache, and every write under way,
\* holds a 200 or 206 response.
C20_ErrorsNeverCached ==
    /\ \A e \in cache : e.resp.status \in {200, 206}
    /\ \A s \in DOMAIN reqs :
          LET h == reqs[s] IN
          /\ h.put # None => Get(h.put).resp.status \in {200, 206}
          /\ (h.pc = "done" /\ Get(h.resp).status \in ErrorStatuses)
             => /\ h.put = None
                /\ \A i \in 1..Len(h.calls) : h.calls[i] # "cache.put"

\* The bucket had no object for the key: 404, nothing written, while the
\* cache holds an entry.
C20_NotFoundNotCached ==
    \E s \in Done :
        LET h == reqs[s] IN
        /\ Get(h.resp).status = 404
        /\ \E i \in 1..Len(h.calls) : h.calls[i] = "r2.get"
        /\ h.put = None
        /\ cache # {}

(***************************************************************************)
(* C21 to C24.                                                             *)
(***************************************************************************)
\* C22: when the Clerk client cannot be created or the verification call
\* throws, authenticateRequest answers 500.
C22_IdentityFailureIs500 ==
    (/\ fout # None
     /\ fin.r1.authorization # None /\ StartsWith(Get(fin.r1.authorization), BEARER_SP)
     /\ fin.r1.xInternalUserId # None /\ Get(fin.r1.xInternalUserId) # <<>>
     /\ fin.o1 \in {"initThrows", "verifyThrows"})
    => /\ ~Get(fout).a1.success
       /\ Get(fout).a1.status = 500

\* The Origin is one of the configured origins.
OriginAuthorized(cors) ==
    /\ cors.origin # None /\ cors.authorizedOrigins # None
    /\ \E i \in 1..Len(Get(cors.authorizedOrigins)) :
          Get(cors.authorizedOrigins)[i] = Get(cors.origin)

\* The headers grant cross-origin access: Access-Control-Allow-Origin is
\* there and not empty.
GrantsAccess(headers) ==
    /\ "access-control-allow-origin" \in DOMAIN headers
    /\ headers["access-control-allow-origin"] # ""

\* C23: no response carries Access-Control-Allow-Origin: *, and a response
\* grants cross-origin access only to a request whose Origin is one of the
\* configured origins.
C23_CorsAllowListed ==
    fout # None
    => /\ GrantsAccess(Get(fout)) => Get(fout)["access-control-allow-origin"] # "*"
       /\ GrantsAccess(Get(fout)) => OriginAuthorized(fin.cors)

\* The execution called the bucket and the call threw: it ended with neither
\* an object nor the 404 of a missing object.
StorageThrew(h) ==
    /\ h.pc = "done" /\ h.calls # <<>>
    /\ h.calls[Len(h.calls)] \in {"r2.head", "r2.get"}
    /\ h.object = None
    /\ Get(h.resp).status # 404

\* The uniform JSON error body {"error": "<message>"}.
IsJsonErrorBody(body) ==
    /\ body # None
    /\ Len(Get(body)) = 2
    /\ Get(body)[1] = "error"

\* C21: when bucket.head or bucket.get throws, the handler answers with a
\* 5xx response it built itself, carrying the JSON error body, and nothing
\* is cached.
C21_StorageFailureIsJson5xx ==
    \A s \in DOMAIN reqs :
        LET h == reqs[s] IN
        StorageThrew(h)
        => /\ Get(h.resp).via = "error"
           /\ Get(h.resp).status \in 500..599
           /\ IsJsonErrorBody(Get(h.resp).body)
           /\ h.put = None

\* C24: an OPTIONS request is answered 204 with no collaborator call, with
\* Allow-Methods GET, HEAD, OPTIONS, Allow-Headers Range, Authorization,
\* Max-Age 86400, and grants no origin when the request's Origin is not one
\* of the configured origins.
C24_PreflightAllowListed ==
    \A s \in Done :
        LET h == reqs[s]
            headers == Get(h.resp).headers
        IN
        h.req.method = "OPTIONS"
        => /\ Get(h.resp).status = 204
           /\ h.calls = <<>> /\ h.auth = None /\ h.put = None
           /\ headers["access-control-allow-methods"] = "GET, HEAD, OPTIONS"
           /\ headers["access-control-allow-headers"] = "Range, Authorization"
           /\ headers["access-control-max-age"] = "86400"
           /\ ~OriginAuthorized(CorsContext(h.req)) => ~GrantsAccess(headers)

(***************************************************************************)
(* C25 to C30.                                                             *)
(***************************************************************************)
\* C25: while the cache write of an execution is under way the execution
\* has already returned, and the write ending, landed or failed, leaves the
\* returned response as it was.
C25_WriteNeverChangesResponse ==
    [][\A s \in DOMAIN reqs :
          reqs[s].put # None
          => /\ reqs[s].pc = "done"
             /\ reqs'[s].pc = "done"
             /\ reqs'[s].resp = reqs[s].resp]_vars

\* A GET that missed the cache has returned 200 with the object's bytes
\* while its cache write is under way.
C25_ReturnedWhileWritePending ==
    \E s \in Done :
        LET h == reqs[s] IN
        /\ h.put # None
        /\ h.req.method = "GET"
        /\ Get(h.resp).status = 200 /\ Get(h.resp).via = "r2"
        /\ Get(h.resp).body = Some(StoredAt(Get(h.fileKey)).bytes)
        /\ cache = {}

\* What an execution of the request, alone, builds from the bucket and
\* hands to the cache.
AloneStores(request) ==
    LET key == DecodedKey(request)
        cors == CorsContext(request)
        range == requestRange(request).range
    IN
    IF request.method = "HEAD"
    THEN { buildHeadResponse(o.object, cors) :
             o \in {x \in R2HeadOutcomes(key) : x.kind = "object"} }
    ELSE { buildR2Response(o.object, range, cors) :
             o \in {x \in R2GetOutcomes(key, range) : x.kind = "object"} }

\* The key an execution of the request, alone, stores under.
AloneKey(request) ==
    buildCacheKey(request.url, Get(request.xInternalUserId), request.range)

\* C26: however the executions interleave, every response built from the
\* bucket is one the request alone would get, every cache entry and every
\* write under way is one its request alone would have stored under its own
\* key, and every cache hit repeats such an entry.
C26_InterleavingIndependent ==
    /\ \A e \in cache : e.key = AloneKey(e.by) /\ e.resp \in AloneStores(e.by)
    /\ \A s \in DOMAIN reqs :
          LET h == reqs[s] IN
          /\ h.put # None
             => /\ Get(h.put).key = AloneKey(h.req)
                /\ Get(h.put).resp \in AloneStores(h.req)
          /\ (h.pc = "done" /\ Get(h.resp).via = "r2")
             => Get(h.resp) \in AloneStores(h.req)
          /\ (h.pc = "done" /\ Get(h.resp).via = "cache")
             => /\ Get(h.hit).key = AloneKey(h.req)
                /\ Get(h.hit).resp \in AloneStores(Get(h.hit).by)

\* Two executions of the same GET both missed the cache, both fetched the
\* object and returned it, and both cache writes have landed.
C26_TwoMissesBothStored ==
    /\ DOMAIN reqs = {1, 2}
    /\ reqs[1].req = reqs[2].req
    /\ \A s \in {1, 2} :
          LET h == reqs[s] IN
          /\ h.pc = "done" /\ h.req.method = "GET" /\ h.put = None
          /\ h.calls = <<"clerk.create", "clerk.authenticateRequest",
                         "cache.match", "r2.get", "cache.put">>
          /\ Get(h.resp).status = 200
          /\ \E e \in cache : e.by = h.req /\ e.resp = Get(h.resp)

\* C27: an execution looks the cache up, and serves a hit, only when its own
\* key validation, its own authentication and its own ownership comparison
\* have passed.
C27_LookupOnlyAfterOwnChecks ==
    \A s \in DOMAIN reqs :
        LET h == reqs[s]
            lookedUp == \/ \E i \in 1..Len(h.calls) : h.calls[i] = "cache.match"
                        \/ h.hit # None
                        \/ (h.pc = "done" /\ Get(h.resp).via = "cache")
        IN
        (h.pc # "idle" /\ lookedUp)
        => /\ h.fileKey # None /\ validateFileKey(Get(h.fileKey)) = None
           /\ h.auth # None /\ Get(h.auth).success
           /\ extractUserIdFromKey(Get(h.fileKey)) = Some(Get(Get(h.auth).internalUserId))
           /\ Get(Get(h.auth).internalUserId) = Get(h.req.xInternalUserId)

\* A cache hit served to a request other than the one that wrote the entry,
\* with other credentials, after its own checks.
C27_HitOnAnothersEntry ==
    \E s \in Done :
        LET h == reqs[s] IN
        /\ Get(h.resp).via = "cache"
        /\ Get(h.hit).by.authorization # h.req.authorization
        /\ h.calls = <<"clerk.create", "clerk.authenticateRequest", "cache.match">>

\* C28: a GET that ends with 200 or 206, from the bucket or from the cache,
\* delivers the status and the body that bucket.get for its key and its
\* Range delivers.
C28_GetDeliversStorageAnswer ==
    \A s \in Done :
        LET h == reqs[s]
            range == parseRangeHeader(h.req.range).range
        IN
        (/\ h.req.method = "GET"
         /\ Get(h.resp).via \in {"r2", "cache"}
         /\ Get(h.resp).status \in {200, 206})
        => \E o \in R2GetOutcomes(Get(h.fileKey), range) :
              /\ o.kind = "object"
              /\ buildR2Response(o.object, range, CorsContext(h.req)).status
                    = Get(h.resp).status
              /\ buildR2Response(o.object, range, CorsContext(h.req)).body
                    = Get(h.resp).body

\* The checks of the /file/ handler that have failed for the request, in
\* step order.
KeyInvalid(h) == validateFileKey(DecodedKey(h.req)) # None

CredentialsFail(h) == h.auth # None /\ ~Get(h.auth).success

OwnershipMismatch(h) ==
    /\ h.auth # None /\ Get(h.auth).success
    /\ extractUserIdFromKey(DecodedKey(h.req)) # Some(Get(Get(h.auth).internalUserId))

RangeInvalid(h) ==
    h.req.method # "HEAD" /\ parseRangeHeader(h.req.range).error # None

\* C29: the first failed check of a /file/ request decides its status and
\* no later step runs: 403 for the key with no collaborator called, 401 or
\* 500 for the credentials, 403 for the ownership, 400 for the Range of a
\* GET; then a cache hit is served without the bucket, then a missing object
\* is 404.
C29_ErrorPrecedence ==
    \A s \in DOMAIN reqs :
        LET h == reqs[s] IN
        (h.pc # "idle" /\ IsFileRequest(h.req))
        => /\ KeyInvalid(h)
              => /\ h.pc = "done" /\ Get(h.resp).status = 403
                 /\ h.calls = <<>> /\ h.auth = None
           /\ (~KeyInvalid(h) /\ CredentialsFail(h))
              => /\ h.pc = "done"
                 /\ Get(h.resp).status = Get(h.auth).status
                 /\ Get(h.resp).status \in {401, 500}
                 /\ ~CallsCacheOrStorage(h)
           /\ (~KeyInvalid(h) /\ OwnershipMismatch(h))
              => /\ h.pc = "done" /\ Get(h.resp).status = 403
                 /\ ~CallsCacheOrStorage(h)
           /\ (~KeyInvalid(h) /\ h.auth # None /\ ~CredentialsFail(h)
               /\ ~OwnershipMismatch(h) /\ RangeInvalid(h))
              => /\ h.pc = "done" /\ Get(h.resp).status = 400
                 /\ ~CallsCacheOrStorage(h)
           /\ h.pc \in {"lookup", "fetch"}
              => /\ ~KeyInvalid(h) /\ h.auth # None /\ ~CredentialsFail(h)
                 /\ ~OwnershipMismatch(h) /\ ~RangeInvalid(h)
           /\ (h.pc = "done" /\ h.hit # None)
              => /\ Get(h.resp).via = "cache"
                 /\ \A i \in 1..Len(h.calls) : h.calls[i] \notin {"r2.head", "r2.get"}
           /\ (h.pc = "done" /\ Get(h.resp).status = 404)
              => /\ h.hit = None /\ h.object = None
                 /\ h.calls[Len(h.calls)] \in {"r2.head", "r2.get"}

\* Tenant u2's GET of tenant u1's object with bytes=5-2 was answered 403,
\* not 400.
C29_OwnershipBeforeRange ==
    \E s \in Done :
        LET h == reqs[s] IN
        /\ h.req.method = "GET" /\ IsFileRequest(h.req)
        /\ ~KeyInvalid(h) /\ OwnershipMismatch(h) /\ RangeInvalid(h)
        /\ Get(h.resp).status = 403

\* C30: a request to /file/ with a method other than GET and HEAD calls
\* neither the cache nor the bucket and is not answered with an object.
C30_OnlyGetAndHeadServed ==
    \A s \in DOMAIN reqs :
        LET h == reqs[s] IN
        (/\ h.pc # "idle"
         /\ StartsWith(h.req.url.path, FILE_SLASH)
         /\ h.req.method \notin {"GET", "HEAD"})
        => /\ ~CallsCacheOrStorage(h)
           /\ h.pc = "done" => Get(h.resp).via \notin {"r2", "cache"}

(***************************************************************************)
(* C31 to C35.                                                             *)
(***************************************************************************)
\* The path starts with /file/ and the rest is not validly percent-encoded.
IsUndecodableFileRequest(request) ==
    /\ StartsWith(request.url.path, FILE_SLASH)
    /\ request.method # "OPTIONS"
    /\ decodeURIComponent(SubSeq(request.url.path, 7, Len(request.url.path))) = None

\* C31: a /file/ request whose key does not decode is answered with the 403
\* JSON error of the handler, with no collaborator called.
C31_UndecodableKeyIs403 ==
    \A s \in DOMAIN reqs :
        LET h == reqs[s] IN
        (h.pc # "idle" /\ IsUndecodableFileRequest(h.req))
        => /\ h.pc = "done"
           /\ Get(h.resp).status = 403
           /\ Get(h.resp).via = "error"
           /\ IsJsonErrorBody(Get(h.resp).body)
           /\ h.calls = <<>>

\* The calls of the execution to the bucket.
StorageCalls(h) == {i \in 1..Len(h.calls) : h.calls[i] \in {"r2.head", "r2.get"}}

\* C32: an execution of the /file/ handler calls the bucket at most once,
\* with head for HEAD and get otherwise, and not at all when the lookup
\* hit; the response it returns and the one it hands to the cache are the
\* one built from that read, with the body of the object read.
C32_SingleStorageRead ==
    \A s \in DOMAIN reqs :
        LET h == reqs[s] IN
        (h.pc # "idle" /\ IsFileRequest(h.req))
        => /\ Cardinality(StorageCalls(h)) <= 1
           /\ h.hit # None => StorageCalls(h) = {}
           /\ \A i \in StorageCalls(h) :
                 h.calls[i] = IF h.req.method = "HEAD" THEN "r2.head" ELSE "r2.get"
           /\ h.put # None
              => /\ h.object # None /\ Cardinality(StorageCalls(h)) = 1
                 /\ Get(h.put).resp = Get(h.resp)
                 /\ h.req.method # "HEAD" => Get(h.resp).body = Get(h.object).body

\* A GET with bytes=0-1 read the object once and returned 206; the copy for
\* the cache, still under way, carries the same two bytes.
C32_OneReadTwoCopies ==
    \E s \in Done :
        LET h == reqs[s] IN
        /\ h.req.method = "GET" /\ h.req.range = R_0_1
        /\ Get(h.resp).status = 206
        /\ Cardinality(StorageCalls(h)) = 1
        /\ h.put # None
        /\ Get(h.put).resp.body = Get(h.resp).body
        /\ Get(h.resp).body = Some(SubSeq(StoredAt(Get(h.fileKey)).bytes, 1, 2))

\* C33: in the proxy of presigned URLs a response to a HEAD that came to the
\* cache lookup has no body, from the cache as from upstream, and a GET with Range: bytes=0-0 is not
\* answered from an entry a HEAD wrote.
C33_ProxyHeadAndGetApart ==
    \A s \in Done :
        LET h == reqs[s] IN
        (Get(h.resp).via # "uncaught" /\ h.calls # <<>>)
        => /\ h.req.method = "HEAD" => Get(h.resp).body = None
           /\ (h.req.method = "GET" /\ h.req.range = Some(BYTES_0_0) /\ h.hit # None)
              => /\ Get(h.hit).by.method # "HEAD"
                 /\ Get(h.resp).body # None

\* The code parameter of the request is two lowercase letters.
HasTwoLetterCode(request) ==
    LET at == {i \in 1..Len(request.url.query) : request.url.query[i].name = CODE_PARAM}
    IN  /\ at # {}
        /\ LET code == request.url.query[SetMin(at)].value
           IN  /\ Len(code) = 2
               /\ code[1] \in LowerLetters /\ code[2] \in LowerLetters

IsFlagSvg200(resp) ==
    /\ resp.status = 200
    /\ resp.headers["content-type"] = "image/svg+xml"
    /\ resp.body # None

\* C34: a flag request without a code of two lowercase letters is answered
\* 400 with no cache lookup and no upstream fetch; every cache entry and
\* every write under way is a 200 SVG response to a request with such a
\* code; an upstream failure, timeout or non-OK status starts no write.
C34_FlagRoute ==
    /\ \A e \in cache : IsFlagSvg200(e.resp) /\ HasTwoLetterCode(e.by)
    /\ \A s \in DOMAIN reqs :
          LET h == reqs[s] IN
          h.pc # "idle"
          => /\ ~HasTwoLetterCode(h.req)
                => /\ h.pc = "done" /\ Get(h.resp).status = 400
                   /\ h.calls = <<>> /\ h.put = None
             /\ h.put # None
                => IsFlagSvg200(Get(h.put).resp) /\ HasTwoLetterCode(h.req)
             /\ (/\ h.object # None
                 /\ \/ Get(h.object).kind \in {"throws", "timeout"}
                    \/ Get(h.object).status \notin 200..299)
                => /\ h.put = None
                   /\ Get(h.resp).status \in {404, 500}
                   /\ \A i \in 1..Len(h.calls) : h.calls[i] # "cache.put"

\* With the flag of us in the cache, the request for gb timed out upstream:
\* 500, nothing written, the cache as it was.
C34_TimeoutStoresNothing ==
    \E s \in Done :
        LET h == reqs[s] IN
        /\ h.fileKey = Some(<<"g", "b">>)
        /\ h.object # None /\ Get(h.object).kind = "timeout"
        /\ Get(h.resp).status = 500
        /\ h.put = None
        /\ \E e \in cache : e.resp.body = Some(FlagSvg(<<"u", "s">>))
        /\ \A e \in cache : HasTwoLetterCode(e.by)

\* C35 as stated: parseRangeHeader never returns a range together with an
\* error, and a range it returns has one of the shapes {offset, length},
\* {offset}, {suffix}, with offset >= 0, 1 <= length <= MAX_RANGE_SIZE_BYTES
\* and 0 <= suffix <= MAX_SUFFIX_SIZE_BYTES.
C35_ByteRangeInvariant ==
    fout # None
    => LET p == Get(fout) IN
       /\ ~(p.range # None /\ p.error # None)
       /\ p.range # None
          => LET r == Get(p.range) IN
             /\ \/ (r.offset # None /\ r.length # None /\ r.suffix = None)
                \/ (r.offset # None /\ r.length = None /\ r.suffix = None)
                \/ (r.offset = None /\ r.length = None /\ r.suffix # None)
             /\ r.offset # None => NumGe(Get(r.offset), 0)
             /\ r.length # None
                => NumLe(1, Get(r.length)) /\ NumLe(Get(r.length), MAX_RANGE_SIZE_BYTES)
             /\ r.suffix # None
                => NumLe(0, Get(r.suffix)) /\ NumLe(Get(r.suffix), MAX_SUFFIX_SIZE_BYTES)

====
